---- MODULE Spec2Model ----
(***************************************************************************)
(* Sync-Player (src/server.js): the socket.io session engine.              *)
(*                                                                         *)
(* One state machine covers both deployments of the server: multi-room     *)
(* mode (SERVER_MODE, the Room class and the rooms registry) and the       *)
(* single-room "legacy" mode (module-level PLAYLIST / videoState).  Every  *)
(* socket.io handler is one action; set-playlist, which awaits the track   *)
(* probe and arms a 500 ms timer, is three.  Time is counted in whole      *)
(* seconds (Date.now() / 1000).                                            *)
(***************************************************************************)
EXTENDS Integers, Sequences, FiniteSets, TLC

\* ------------------------------------------------------------------ bounds
\* Wall clock values 0..MaxTime.
MaxTime == 2
\* Forward skips are accepted by the model only while currentTime <= MaxCurrentTime.
MaxCurrentTime == 12
\* set-playlist handlers that may be suspended on a probe at the same time.
MaxPending == 1
\* Set-playlist handlers suspended at once where two commands overlap.
MaxOverlap == 2
\* Events counted by the rate limiter beyond its limit.
MaxOverflow == 2
\* The last second at which the remote address may wait.
MaxRateTime == 10

\* ------------------------------------------------------- program constants
SKIP_SECONDS == 5
DRIFT_MIN == -60
\* (a bound taken for minutes)
DRIFT_MAX_InMinutes == 60 * 60
DRIFT_MAX == 60

\* ------------------------------------------------------------ value spaces
\* JavaScript undefined / null / NaN in a numeric position, a string position
\* and a socket-id position.
undefined == 0 - 999
NaN == 0 - 998
undefinedStr == "undefined"
null == "null"

\* socket.id values; an id is never handed out twice.
Sockets == {"s1", "s2", "s3"}
\* Codes generateRoomCode can return (always upper case), and the same codes
\* as a client may type them.
Codes == {"ROOMAA", "ROOMBB"}
CodeInputs == {"ROOMAA", "ROOMBB", "roomaa"}
Fingerprints == {"fpA", "fpB"}
FingerprintInputs == {"fpA", "fpB", undefinedStr}
\* The key of the implicit single room.
Legacy == "Legacy"

toUpperCase(code) ==
  CASE code = "roomaa" -> "ROOMAA"
    [] code = "roombb" -> "ROOMBB"
    [] OTHER -> code

VARIABLES
  config,                  \* the validated configuration record
  now,                     \* Date.now()
  crashed,                 \* an exception left a handler: the process is gone
  sockets,                 \* socket id -> "fresh" | "open" | "closed"
  ioRooms,                 \* socket id -> socket.io rooms it has joined
  socketRoomMap,           \* socket id -> room code, or undefinedStr
  rooms,                   \* the registry: code -> Room
  usedCodes,               \* codes already drawn
  roomAdmins,              \* room_admins.json: code -> fingerprint
  PLAYLIST,                \* legacy playlist
  videoState,              \* legacy playback state
  adminSocketId,           \* legacy admin seat
  verifiedAdminSockets,    \* legacy verified admins
  connectedClients,        \* legacy socket id -> fingerprint
  clientBslStatus,         \* legacy BSL status map
  clientDriftValues,       \* legacy drift map
  registeredAdminFingerprint,
  memory,                  \* memory.json: clientNames, bslMatches
  pending,                 \* set-playlist handlers suspended on a probe
  timers,                  \* armed 500 ms pause timers
  detached,                \* playback-state objects no room refers to any more
  kickTimers,              \* sockets to be force-closed after the 1 s grace
  remote,                  \* the sockets whose handshake address is not localhost
  rateLimiter,             \* socketRateLimiter's record for the remote address
  dispatched,              \* time -> events of the remote address handed to handlers
  last,                    \* the message handled by the last step
  sent                     \* what that step emitted, in order

vars == <<config, now, crashed, sockets, ioRooms, socketRoomMap, rooms, usedCodes,
          roomAdmins, PLAYLIST, videoState, adminSocketId, verifiedAdminSockets,
          connectedClients, clientBslStatus, clientDriftValues,
          registeredAdminFingerprint, memory, pending, timers, detached,
          kickTimers, remote, rateLimiter, dispatched, last, sent>>

connVars == <<sockets, ioRooms, socketRoomMap>>
legacyVars == <<PLAYLIST, videoState, adminSocketId, clientBslStatus, clientDriftValues>>
legacyAdminVars == <<verifiedAdminSockets, connectedClients, registeredAdminFingerprint>>
asyncVars == <<pending, timers, detached, kickTimers>>
limiterVars == <<remote, rateLimiter, dispatched>>

\* ------------------------------------------------------------ constructors
\* What reading videos[i] gives where the array has no entry: a slot that was
\* assigned undefined, or the property videos["undefined"] never written.
Hole == [filename |-> undefinedStr, isExternal |-> FALSE,
         selectedAudioTrack |-> undefined, selectedSubtitleTrack |-> undefined]

\* undefinedSlot: the property videos[undefined] of the array (a swap with a
\* missing index writes it).
NewPlaylist ==
  [videos |-> <<>>, undefinedSlot |-> Hole, currentIndex |-> -1, mainVideoIndex |-> -1,
   mainVideoStartTime |-> 0]

NewVideoState(t) ==
  [isPlaying |-> TRUE, currentTime |-> 0, lastUpdate |-> t,
   audioTrack |-> 0, subtitleTrack |-> -1]

EmptyMap == [x \in {} |-> 0]

NewRoom(fingerprint, t) ==
  [adminFingerprint |-> fingerprint,
   adminSocketId |-> null,
   clients |-> EmptyMap,
   playlist |-> NewPlaylist,
   videoState |-> NewVideoState(t),
   clientBslStatus |-> EmptyMap,
   clientDriftValues |-> EmptyMap]

\* f with key k bound to v (Map.set) and with key k removed (Map.delete).
MapSet(f, k, v) == [x \in DOMAIN f \cup {k} |-> IF x = k THEN v ELSE f[x]]
MapDelete(f, k) == [x \in DOMAIN f \ {k} |-> f[x]]

\* ------------------------------------------------------------- emissions
OpenSockets == {s \in Sockets : sockets[s] = "open"}
IoRoom(code) == {s \in OpenSockets : code \in ioRooms[s]}
Msg(to, ev, data) == [to |-> to, ev |-> ev, data |-> data]
NoMsg == [sock |-> null, ev |-> "none", data |-> 0]


\* ------------------------------------------------------------ the target
\* The handlers shared by both modes work on targetPlaylist, targetVideoState,
\* ... : the fields of the sender's room, or the module-level state.
LegacyTarget ==
  [adminSocketId |-> adminSocketId, playlist |-> PLAYLIST, videoState |-> videoState,
   clientBslStatus |-> clientBslStatus, clientDriftValues |-> clientDriftValues]

\* What a handler still holds of a room that has left the registry.
GoneTarget ==
  [adminSocketId |-> null, playlist |-> NewPlaylist, videoState |-> NewVideoState(0),
   clientBslStatus |-> EmptyMap, clientDriftValues |-> EmptyMap]

Target(k) ==
  IF k = Legacy THEN LegacyTarget
  ELSE IF k \notin DOMAIN rooms THEN GoneTarget
  ELSE [adminSocketId |-> rooms[k].adminSocketId, playlist |-> rooms[k].playlist,
        videoState |-> rooms[k].videoState,
        clientBslStatus |-> rooms[k].clientBslStatus,
        clientDriftValues |-> rooms[k].clientDriftValues]

\* Write the target back.  A room that has left the registry is garbage: writes
\* to its objects are not observable.
Store(k, t) ==
  IF k = Legacy
  THEN /\ PLAYLIST' = t.playlist
       /\ videoState' = t.videoState
       /\ adminSocketId' = t.adminSocketId
       /\ clientBslStatus' = t.clientBslStatus
       /\ clientDriftValues' = t.clientDriftValues
       /\ UNCHANGED rooms
  ELSE /\ rooms' = IF k \in DOMAIN rooms
                   THEN [rooms EXCEPT ![k] =
                           [@ EXCEPT !.playlist = t.playlist,
                                     !.videoState = t.videoState,
                                     !.adminSocketId = t.adminSocketId,
                                     !.clientBslStatus = t.clientBslStatus,
                                     !.clientDriftValues = t.clientDriftValues]]
                   ELSE rooms
       /\ UNCHANGED legacyVars

\* getRoom(code): rooms.get(code?.toUpperCase()).
getRoom(code) == toUpperCase(code)
HasRoom(code) == getRoom(code) \in DOMAIN rooms

\* The room the sender is mapped to, when the mode has rooms and it has one.
SenderRoom(s) ==
  IF config.SERVER_MODE
  THEN IF socketRoomMap[s] # undefinedStr /\ HasRoom(socketRoomMap[s])
       THEN getRoom(socketRoomMap[s]) ELSE undefinedStr
  ELSE Legacy

\* ------------------------------------------------------------ admin gate
\* A whitelist that leaves out the one command whose handler has no admin
\* check of its own.
ADMIN_ONLY_EVENTS_WithoutDisplayName ==
  {"set-playlist", "playlist-reorder", "playlist-jump", "track-change",
   "skip-to-next-video", "bsl-admin-register", "bsl-check-request", "bsl-get-status",
   "bsl-manual-match", "bsl-set-drift", "set-client-name", "get-client-list",
   "delete-room", "create-room"}

ADMIN_ONLY_EVENTS ==
  {"set-playlist", "playlist-reorder", "playlist-jump", "track-change",
   "skip-to-next-video", "bsl-admin-register", "bsl-check-request", "bsl-get-status",
   "bsl-manual-match", "bsl-set-drift", "set-client-name", "get-client-list",
   "set-client-display-name", "delete-room", "create-room"}

isSocketAdmin(socketId) ==
  IF config.SERVER_MODE
  THEN /\ socketRoomMap[socketId] # undefinedStr
       /\ HasRoom(socketRoomMap[socketId])
       /\ rooms[getRoom(socketRoomMap[socketId])].adminSocketId = socketId
  ELSE IF ~config.ADMIN_FINGERPRINT_LOCK THEN TRUE
       ELSE socketId \in verifiedAdminSockets

\* The authorization middleware blocks the packet.
Blocked(s, ev) ==
  /\ ev \in ADMIN_ONLY_EVENTS
  /\ ev \notin {"create-room", "bsl-admin-register"}
  /\ ~isSocketAdmin(s)

Handled(s, ev, data, msgs) ==
  /\ last' = [sock |-> s, ev |-> ev, data |-> data]
  /\ sent' = msgs

Reject(s, ev, data) ==
  /\ Handled(s, ev, data, <<Msg({s}, "admin-error", ev)>>)
  /\ UNCHANGED <<config, now, crashed, connVars, rooms, usedCodes, roomAdmins,
                 legacyVars, legacyAdminVars, memory, asyncVars>>

\* An exception leaves the handler: nothing catches it.
Throw(s, ev, data) ==
  /\ crashed' = TRUE
  /\ Handled(s, ev, data, <<>>)
  /\ UNCHANGED <<config, now, connVars, rooms, usedCodes, roomAdmins,
                 legacyVars, legacyAdminVars, memory, asyncVars>>

\* A message sent without an argument: the handler's `data` is undefined.
NoData == [argument |-> undefinedStr]

Has(data, field) == field \in DOMAIN data

\* socketRateLimiter: 100 events per 10 seconds, blocked for 5 seconds when
\* exceeded.  One fixed window per key: the record lives until expiresAt.
POINTS == 100
DURATION == 10
BLOCK_DURATION == 5

RateLive == now < rateLimiter.expiresAt
\* incrby: the points consumed with this event, and the record holding them.
RateConsumed == IF RateLive THEN rateLimiter.consumed + 1 ELSE 1
RateIncr ==
  IF RateLive THEN [rateLimiter EXCEPT !.consumed = @ + 1]
  ELSE [consumed |-> 1, expiresAt |-> now + DURATION]
\* A limiter that rejects the event that reaches the limit.
RateRejectedAtLimit == RateConsumed >= POINTS

RateRejected == RateConsumed > POINTS
\* The key is blocked by the first event over the limit only.
RateBlock ==
  IF RateConsumed <= POINTS + 1
  THEN [consumed |-> RateConsumed, expiresAt |-> now + BLOCK_DURATION]
  ELSE RateIncr

\* The events of the last DURATION seconds, this one included.
Dispatch ==
  [t \in {x \in DOMAIN dispatched \cup {now} : x > now - DURATION} |->
     (IF t \in DOMAIN dispatched THEN dispatched[t] ELSE 0) + (IF t = now THEN 1 ELSE 0)]

\* The rate-limit middleware drops the packet.
RateLimited(s, ev, data) ==
  /\ rateLimiter' = RateBlock
  /\ dispatched' = dispatched
  /\ Handled(s, ev, data, <<Msg({s}, "rate-limit-error", rateLimiter'.expiresAt - now)>>)
  /\ UNCHANGED <<config, now, crashed, connVars, rooms, usedCodes, roomAdmins,
                 legacyVars, legacyAdminVars, memory, asyncVars>>

\* A packet from an open socket: the rate limiter, the authorization
\* middleware, then the handler.
Recv(s, ev, data, H(_, _)) ==
  /\ ~crashed
  /\ sockets[s] = "open"
  /\ remote' = remote
  /\ IF s \in remote
     THEN /\ rateLimiter.consumed < POINTS + MaxOverflow \/ ~RateLive
          /\ IF RateRejected THEN RateLimited(s, ev, data)
             ELSE /\ rateLimiter' = RateIncr
                  /\ dispatched' = Dispatch
                  /\ IF Blocked(s, ev) THEN Reject(s, ev, data) ELSE H(s, data)
     ELSE /\ UNCHANGED <<rateLimiter, dispatched>>
          /\ IF Blocked(s, ev) THEN Reject(s, ev, data) ELSE H(s, data)

\* -------------------------------------------------------------- Room class
\* Room.isAdmin: RAM first, then the persisted table (which restores RAM).
getAdminFingerprint(code) ==
  IF code \in DOMAIN roomAdmins /\ roomAdmins[code] # undefinedStr
  THEN roomAdmins[code] ELSE null

isAdminRAM(room, fingerprint) == room.adminFingerprint = fingerprint
isAdminDisk(code, fingerprint) ==
  getAdminFingerprint(code) # null /\ getAdminFingerprint(code) = fingerprint
\* A check that only asks whether the room has an admin fingerprint at all.
isAdminOfAnyone(code, fingerprint) ==
  rooms[code].adminFingerprint # null \/ getAdminFingerprint(code) # null
isAdmin(code, fingerprint) ==
  isAdminRAM(rooms[code], fingerprint) \/ isAdminDisk(code, fingerprint)
\* The failed check logs fingerprint.substring(0, 8).
isAdminThrows(code, fingerprint) ==
  ~isAdmin(code, fingerprint) /\ fingerprint = undefinedStr
\* The room after the check.
AfterIsAdmin(code, fingerprint) ==
  IF ~isAdminRAM(rooms[code], fingerprint) /\ isAdminDisk(code, fingerprint)
  THEN [rooms[code] EXCEPT !.adminFingerprint = getAdminFingerprint(code)]
  ELSE rooms[code]

addClient(room, socketId, fingerprint) ==
  [room EXCEPT !.clients = MapSet(@, socketId, fingerprint)]

removeClient(room, socketId) ==
  [room EXCEPT !.clients = MapDelete(@, socketId),
               !.clientBslStatus = MapDelete(@, socketId)]

getClientCount(room) == Cardinality(DOMAIN room.clients)

\* getPublicRooms is reported to every socket after a registry change.
RoomsUpdated(rs) == Msg(OpenSockets, "rooms-updated", DOMAIN rs)

\* getCurrentTrackSelections (of the Room, and the module-level one).
IndexOk(idx, playlist) == idx \in 0..(Len(playlist.videos) - 1)
Or(v, d) == IF v = undefined THEN d ELSE v
EntrySelections(video) ==
  [audioTrack |-> Or(video.selectedAudioTrack, 0),
   subtitleTrack |-> Or(video.selectedSubtitleTrack, -1)]
getCurrentTrackSelections(playlist) ==
  IF IndexOk(playlist.currentIndex, playlist)
  THEN EntrySelections(playlist.videos[playlist.currentIndex + 1])
  ELSE [audioTrack |-> 0, subtitleTrack |-> -1]

\* ------------------------------------------------------------------- Init
envVars == <<config, now, crashed>>

ConfigSpace ==
  [SERVER_MODE : BOOLEAN, ADMIN_FINGERPRINT_LOCK : BOOLEAN, JOIN_MODE : {"sync", "reset"},
   VIDEO_AUTOPLAY : BOOLEAN, CLIENT_CONTROLS_DISABLED : BOOLEAN,
   CLIENT_SYNC_DISABLED : BOOLEAN]

\* bsl_advanced_match and bsl_advanced_match_threshold of a configuration
\* record that does not set them.
BslDefaults == [BSL_ADVANCED_MATCH |-> FALSE, BSL_ADVANCED_MATCH_THRESHOLD |-> 1]

\* memory.json as an earlier run left it: empty.
EmptyMemory == [clientNames |-> EmptyMap, bslMatches |-> EmptyMap]

InitState(configs, remotes, memories) ==
  /\ config \in {c @@ BslDefaults : c \in configs}
  /\ remote = remotes
  /\ rateLimiter = [consumed |-> 0, expiresAt |-> 0]
  /\ dispatched = EmptyMap
  /\ now = 0
  /\ crashed = FALSE
  /\ sockets = [s \in Sockets |-> "fresh"]
  /\ ioRooms = [s \in Sockets |-> {}]
  /\ socketRoomMap = [s \in Sockets |-> undefinedStr]
  /\ rooms = EmptyMap
  /\ usedCodes = {}
  /\ roomAdmins = EmptyMap
  /\ PLAYLIST = NewPlaylist
  /\ videoState = NewVideoState(0)
  /\ adminSocketId = null
  /\ verifiedAdminSockets = {}
  /\ connectedClients = EmptyMap
  /\ clientBslStatus = EmptyMap
  /\ clientDriftValues = EmptyMap
  \* getAdminFingerprint() of memory.json: bound by an earlier run, or not yet.
  /\ registeredAdminFingerprint \in
       IF config.ADMIN_FINGERPRINT_LOCK /\ ~config.SERVER_MODE THEN {null, "fpA"} ELSE {null}
  /\ memory \in memories
  /\ pending = <<>>
  /\ timers = <<>>
  /\ detached = EmptyMap
  /\ kickTimers = {}
  /\ last = NoMsg
  /\ sent = <<>>

\* Every socket connects from localhost.
InitWith(configs) == InitState(configs, {}, {EmptyMemory})

\* ------------------------------------------------------------- connection
\* broadcastClientCount(): the sockets of `open`, the admin excluded.
ClientCount(open, admin) ==
  Cardinality(open) - (IF admin # null /\ admin \in open THEN 1 ELSE 0)

\* The JOIN_MODE branch of the single-room initialisation: what a join does
\* to the playback state, and who is sent the snapshot.
\* (a join that rewinds whatever the mode)
JoinStateAlwaysReset(vs, t) == [vs EXCEPT !.currentTime = 0, !.lastUpdate = t]

JoinState(vs, t) ==
  IF config.JOIN_MODE = "reset" THEN [vs EXCEPT !.currentTime = 0, !.lastUpdate = t]
  ELSE vs

\* (a snapshot that goes to the joiner only, whatever the mode)
JoinAudienceJoinerOnly(open, s) == {s}

JoinAudience(open, s) == IF config.JOIN_MODE = "reset" THEN open ELSE {s}

\* io.on('connection'): in single-room mode the socket is initialised at once.
Connect(s) ==
  /\ ~crashed
  /\ sockets[s] = "fresh"
  /\ sockets' = [sockets EXCEPT ![s] = "open"]
  /\ IF config.SERVER_MODE
     THEN /\ Handled(s, "connection", 0, <<>>)
          /\ UNCHANGED videoState
     ELSE LET open == OpenSockets \cup {s}
              sel == getCurrentTrackSelections(PLAYLIST)
              vs1 == [videoState EXCEPT !.audioTrack = sel.audioTrack,
                                        !.subtitleTrack = sel.subtitleTrack]
              vs2 == JoinState(vs1, now)
          IN /\ videoState' = vs2
             /\ Handled(s, "connection", 0,
                  <<Msg(open, "client-count", ClientCount(open, adminSocketId)),
                    Msg({s}, "config", 0),
                    Msg({s}, "playlist-update", PLAYLIST),
                    Msg(JoinAudience(open, s), "sync", vs2)>>)
  /\ UNCHANGED <<envVars, ioRooms, socketRoomMap, rooms, usedCodes, roomAdmins,
                 PLAYLIST, adminSocketId, clientBslStatus, clientDriftValues,
                 legacyAdminVars, memory, asyncVars, limiterVars>>

\* sendBslStatusToAdmin, for a target whose maps are already updated.
BslStatusMsgs(t) ==
  IF t.adminSocketId = null THEN <<>>
  ELSE <<Msg({t.adminSocketId} \cap OpenSockets, "bsl-status-update",
             [clients |-> t.clientBslStatus, drifts |-> t.clientDriftValues])>>

\* 'disconnect' (both registrations); the socket has already left io.sockets.
Disconnect(s) ==
  /\ ~crashed
  /\ sockets[s] = "open"
  /\ sockets' = [sockets EXCEPT ![s] = "closed"]
  /\ ioRooms' = [ioRooms EXCEPT ![s] = {}]
  /\ kickTimers' = kickTimers \ {s}
  /\ LET open == OpenSockets \ {s} IN
     IF config.SERVER_MODE
     THEN LET code == socketRoomMap[s] IN
          /\ socketRoomMap' = [socketRoomMap EXCEPT ![s] = undefinedStr]
          /\ IF code # undefinedStr /\ HasRoom(code)
             THEN LET k == getRoom(code)
                      room == removeClient(rooms[k], s)
                  IN /\ rooms' = [rooms EXCEPT ![k] = room]
                     /\ Handled(s, "disconnect", 0,
                          <<Msg(IoRoom(code) \ {s}, "viewer-count", getClientCount(room)),
                            Msg(open, "rooms-updated", DOMAIN rooms)>>)
             ELSE /\ Handled(s, "disconnect", 0, <<>>)
                  /\ UNCHANGED rooms
          /\ UNCHANGED <<legacyVars, legacyAdminVars>>
     ELSE LET admin == IF s = adminSocketId THEN null ELSE adminSocketId
              status == MapDelete(clientBslStatus, s)
          IN /\ clientBslStatus' = status
             /\ verifiedAdminSockets' = verifiedAdminSockets \ {s}
             /\ connectedClients' = MapDelete(connectedClients, s)
             /\ adminSocketId' = admin
             /\ Handled(s, "disconnect", 0,
                  (IF admin = null THEN <<>>
                   ELSE <<Msg({admin} \cap open, "bsl-status-update",
                              [clients |-> status, drifts |-> clientDriftValues])>>)
                  \o <<Msg(open, "client-count", ClientCount(open, admin))>>)
             /\ UNCHANGED <<socketRoomMap, rooms, PLAYLIST, videoState, clientDriftValues,
                            registeredAdminFingerprint>>
  /\ UNCHANGED <<envVars, usedCodes, roomAdmins, memory, pending, timers, detached,
                 limiterVars>>

\* ------------------------------------------------- multi-room lifecycle
\* generateRoomCode draws a code no room has.  Codes are opaque to every
\* handler, so the model hands them out in one order and never twice.
CodeOrder == <<"ROOMAA", "ROOMBB">>
\* A generator that does not look at the registry.
generateRoomCodeWithoutRetry == CodeOrder[1]

generateRoomCode == CodeOrder[Cardinality(usedCodes) + 1]

\* create-room {fingerprint}
H_create_room(s, data) ==
  \* const { name, isPrivate, fingerprint } = data
  IF data = NoData THEN Throw(s, "create-room", data) ELSE
  /\ Cardinality(usedCodes) < Len(CodeOrder)
  /\ LET code == generateRoomCode
         room == addClient([NewRoom(data.fingerprint, now) EXCEPT !.adminSocketId = s],
                           s, data.fingerprint)
         rs == MapSet(rooms, code, room)
     IN /\ rooms' = rs
        /\ usedCodes' = usedCodes \cup {code}
        /\ roomAdmins' = MapSet(roomAdmins, code, data.fingerprint)
        /\ ioRooms' = [ioRooms EXCEPT ![s] = @ \cup {code}]
        /\ socketRoomMap' = [socketRoomMap EXCEPT ![s] = code]
        /\ Handled(s, "create-room", data,
             <<Msg({s}, "ack", [success |-> TRUE, roomCode |-> code]),
               Msg(OpenSockets, "rooms-updated", DOMAIN rs)>>)
        /\ UNCHANGED <<envVars, sockets, legacyVars, legacyAdminVars, memory, asyncVars>>

CreateRoom(s, fingerprint) ==
  /\ config.SERVER_MODE
  /\ Recv(s, "create-room", [fingerprint |-> fingerprint], H_create_room)

\* join-room {roomCode, fingerprint}
H_join_room(s, data) ==
  \* const { roomCode, name, fingerprint } = data
  IF data = NoData THEN Throw(s, "join-room", data)
  ELSE IF ~HasRoom(data.roomCode)
  THEN /\ Handled(s, "join-room", data, <<Msg({s}, "ack", [success |-> FALSE])>>)
       /\ UNCHANGED <<envVars, connVars, rooms, usedCodes, roomAdmins, legacyVars,
                      legacyAdminVars, memory, asyncVars>>
  ELSE LET code == getRoom(data.roomCode) IN
       IF isAdminThrows(code, data.fingerprint) THEN Throw(s, "join-room", data)
       ELSE LET admin == isAdmin(code, data.fingerprint)
                room1 == AfterIsAdmin(code, data.fingerprint)
                room2 == IF admin THEN [room1 EXCEPT !.adminSocketId = s] ELSE room1
                room3 == addClient(room2, s, data.fingerprint)
                rs == [rooms EXCEPT ![code] = room3]
            IN /\ rooms' = rs
               /\ ioRooms' = [ioRooms EXCEPT ![s] = @ \cup {code}]
               /\ socketRoomMap' = [socketRoomMap EXCEPT ![s] = code]
               /\ Handled(s, "join-room", data,
                    <<Msg({s}, "config", [isAdmin |-> admin]),
                      Msg({s}, "playlist-update", room3.playlist),
                      Msg({s}, "sync", room3.videoState),
                      Msg({s}, "ack", [success |-> TRUE, isAdmin |-> admin,
                                       viewers |-> getClientCount(room3)]),
                      Msg(IoRoom(code) \cup {s}, "viewer-count", getClientCount(room3)),
                      Msg(OpenSockets, "rooms-updated", DOMAIN rs)>>)
               /\ UNCHANGED <<envVars, sockets, usedCodes, roomAdmins, legacyVars,
                              legacyAdminVars, memory, asyncVars>>

JoinRoom(s, roomCode, fingerprint) ==
  /\ config.SERVER_MODE
  /\ Recv(s, "join-room", [roomCode |-> roomCode, fingerprint |-> fingerprint], H_join_room)

\* leave-room
H_leave_room(s, data) ==
  LET code == socketRoomMap[s] IN
  /\ socketRoomMap' = [socketRoomMap EXCEPT ![s] = undefinedStr]
  /\ IF code # undefinedStr /\ HasRoom(code)
     THEN LET k == getRoom(code)
              room == removeClient(rooms[k], s)
          IN /\ rooms' = [rooms EXCEPT ![k] = room]
             /\ ioRooms' = [ioRooms EXCEPT ![s] = @ \ {code}]
             /\ Handled(s, "leave-room", data,
                  <<Msg(IoRoom(code) \ {s}, "viewer-count", getClientCount(room)),
                    Msg(OpenSockets, "rooms-updated", DOMAIN rooms)>>)
     ELSE /\ Handled(s, "leave-room", data, <<>>)
          /\ UNCHANGED <<rooms, ioRooms>>
  /\ UNCHANGED <<envVars, sockets, usedCodes, roomAdmins, legacyVars, legacyAdminVars,
                 memory, asyncVars>>

LeaveRoom(s) ==
  /\ config.SERVER_MODE
  /\ Recv(s, "leave-room", 0, H_leave_room)

\* deleteRoom(code): rooms.get(code), with the code as it was written.
deleteRoomHits(code) == code \in DOMAIN rooms

\* delete-room {roomCode, fingerprint}; no handler is registered in
\* single-room mode.
H_delete_room(s, data) ==
  IF ~config.SERVER_MODE \/ ~HasRoom(data.roomCode)
  THEN /\ Handled(s, "delete-room", data,
            IF config.SERVER_MODE THEN <<Msg({s}, "ack", [success |-> FALSE])>> ELSE <<>>)
       /\ UNCHANGED <<envVars, connVars, rooms, usedCodes, roomAdmins, legacyVars,
                      legacyAdminVars, memory, asyncVars>>
  ELSE LET k == getRoom(data.roomCode) IN
       IF isAdminThrows(k, data.fingerprint) THEN Throw(s, "delete-room", data)
       ELSE IF ~isAdmin(k, data.fingerprint)
       THEN /\ Handled(s, "delete-room", data, <<Msg({s}, "ack", [success |-> FALSE])>>)
            /\ UNCHANGED <<envVars, connVars, rooms, usedCodes, roomAdmins, legacyVars,
                           legacyAdminVars, memory, asyncVars>>
       ELSE LET members == DOMAIN rooms[k].clients
                rs == IF deleteRoomHits(data.roomCode)
                      THEN MapDelete(rooms, data.roomCode)
                      ELSE [rooms EXCEPT ![k] = AfterIsAdmin(k, data.fingerprint)]
            IN /\ rooms' = rs
               /\ roomAdmins' = IF deleteRoomHits(data.roomCode)
                                THEN MapDelete(roomAdmins, data.roomCode) ELSE roomAdmins
               /\ ioRooms' = [x \in Sockets |->
                                IF x \in members THEN ioRooms[x] \ {data.roomCode}
                                ELSE ioRooms[x]]
               /\ socketRoomMap' = [x \in Sockets |->
                                IF x \in members THEN undefinedStr ELSE socketRoomMap[x]]
               /\ Handled(s, "delete-room", data,
                    <<Msg(IoRoom(data.roomCode), "room-deleted", data.roomCode),
                      Msg({s}, "ack", [success |-> TRUE]),
                      Msg(OpenSockets, "rooms-updated", DOMAIN rs)>>)
               /\ UNCHANGED <<envVars, sockets, usedCodes, legacyVars, legacyAdminVars,
                              memory, asyncVars>>

DeleteRoom(s, roomCode, fingerprint) ==
  Recv(s, "delete-room", [roomCode |-> roomCode, fingerprint |-> fingerprint], H_delete_room)

\* ------------------------------------------------------------ validation
\* validateCurrentTime: a finite number >= 0.
validateCurrentTime(time) == time \notin {undefined, NaN} /\ time >= 0
\* validateTrackIndex: an integer >= -1.
validateTrackIndex(index) == index \notin {undefined, NaN} /\ index >= -1
\* isValidInteger, for the numbers a payload carries here.
isValidInteger(val) == val \notin {undefined, NaN}
\* validatePlaylistIndex
validatePlaylistIndex(index, playlist) ==
  isValidInteger(index) /\ index >= 0 /\ index < Len(playlist.videos)

\* JavaScript + and % on a possibly missing operand.
Plus(a, b) == IF a \in {undefined, NaN} \/ b \in {undefined, NaN} THEN NaN ELSE a + b
JsMod(a, n) == IF a \in {undefined, NaN} THEN NaN
               ELSE IF a >= 0 THEN a % n ELSE 0 - ((0 - a) % n)

\* ------------------------------------------- playback-state object identity
\* A suspended set-playlist handler and an armed pause timer hold a reference
\* to the playback-state object they captured.  LiveRef: it is still the
\* object the room (or the module) refers to; otherwise a key of `detached`.
LiveRef == 0

\* Who io.to(roomCode).emit / io.emit reaches.
RoomCast(k) == IF k = Legacy THEN OpenSockets ELSE IoRoom(k)

RefsOf(k) ==
  {pending[i].tv : i \in {j \in DOMAIN pending : pending[j].key = k}}
    \cup {timers[i].tv : i \in {j \in DOMAIN timers : timers[j].key = k}}

FreeSlot == CHOOSE d \in 1..(Len(pending) + Len(timers) + 1) : d \notin DOMAIN detached

Retarget(q, k, d) ==
  [i \in DOMAIN q |-> IF q[i].key = k /\ q[i].tv = LiveRef THEN [q[i] EXCEPT !.tv = d]
                      ELSE q[i]]

\* room.videoState = {...}: the room gets a new object; holders of the old
\* one keep it.
ReplaceObject(k, old) ==
  IF LiveRef \in RefsOf(k)
  THEN /\ detached' = MapSet(detached, FreeSlot, old)
       /\ pending' = Retarget(pending, k, FreeSlot)
       /\ timers' = Retarget(timers, k, FreeSlot)
  ELSE UNCHANGED <<detached, pending, timers>>

\* --------------------------------------------------------------- control
ControlInputs ==
  [action : {"playpause"}, state : BOOLEAN]
    \cup [action : {"skip"}, direction : {"forward", "backward"}, seconds : {undefined}]
    \cup [action : {"seek"}, time : {0, 42, -1}]
    \cup [action : {"selectTrack"}, type : {"audio", "subtitle"}, trackIndex : {1, -2}]
    \cup [action : {"none"}, isPlaying : BOOLEAN, currentTime : {undefined, 0}]

\* The payload passes the checks at the head of the handler.
ControlValid(data) ==
  /\ data.action = "none" => (data.currentTime = undefined
                              \/ validateCurrentTime(data.currentTime))
  /\ data.action = "seek" => validateCurrentTime(data.time)
  /\ data.action = "selectTrack" => validateTrackIndex(data.trackIndex)

\* The sender may control: client controls are enabled, or it is the admin.
ControlAllowed(s, k) ==
  LET admin == IF k = Legacy THEN s \in verifiedAdminSockets
               ELSE rooms[k].adminSocketId = s
  IN ~(config.CLIENT_CONTROLS_DISABLED /\ ~admin)

\* Single-room mode drops a push when client_sync_disabled is on; multi-room
\* mode has no such check.
SyncPushDropped(k, data) ==
  k = Legacy /\ config.CLIENT_SYNC_DISABLED /\ data.action = "none"

ApplyPlaypause(vs, data, t) == [vs EXCEPT !.isPlaying = data.state, !.lastUpdate = t]

ApplySkip(vs, data, t) ==
  [vs EXCEPT !.currentTime =
               Plus(@, (IF data.direction = "forward" THEN 1 ELSE -1)
                       * Or(data.seconds, SKIP_SECONDS)),
             !.lastUpdate = t]

ApplySeek(vs, data, t) == [vs EXCEPT !.currentTime = data.time, !.lastUpdate = t]

ApplySelectTrack(vs, data, t) ==
  [vs EXCEPT !.audioTrack = IF data.type = "audio" THEN data.trackIndex ELSE @,
             !.subtitleTrack = IF data.type = "subtitle" THEN data.trackIndex ELSE @,
             !.lastUpdate = t]

ApplyRawSync(vs, data, t) ==
  [isPlaying |-> data.isPlaying, currentTime |-> data.currentTime, lastUpdate |-> t,
   audioTrack |-> vs.audioTrack, subtitleTrack |-> vs.subtitleTrack]

ApplyControl(vs, data, t) ==
  CASE data.action = "playpause" -> ApplyPlaypause(vs, data, t)
    [] data.action = "skip" -> ApplySkip(vs, data, t)
    [] data.action = "seek" -> ApplySeek(vs, data, t)
    [] data.action = "selectTrack" -> ApplySelectTrack(vs, data, t)
    [] OTHER -> ApplyRawSync(vs, data, t)

NothingChanges ==
  UNCHANGED <<envVars, connVars, rooms, usedCodes, roomAdmins, legacyVars,
              legacyAdminVars, memory, asyncVars>>

H_control(s, data) ==
  LET k == SenderRoom(s) IN
  IF ~ControlValid(data) \/ k = undefinedStr
  THEN Handled(s, "control", data, <<>>) /\ NothingChanges
  ELSE IF ~ControlAllowed(s, k)
  THEN /\ Handled(s, "control", data,
            IF k = Legacy THEN <<Msg({s}, "control-rejected", 0)>> ELSE <<>>)
       /\ NothingChanges
  ELSE IF SyncPushDropped(k, data)
  THEN Handled(s, "control", data, <<>>) /\ NothingChanges
  ELSE LET t == Target(k)
           vs == ApplyControl(t.videoState, data, now)
       IN /\ Store(k, [t EXCEPT !.videoState = vs])
          /\ IF data.action = "none" THEN ReplaceObject(k, t.videoState)
             ELSE UNCHANGED <<detached, pending, timers>>
          /\ Handled(s, "control", data, <<Msg(RoomCast(k), "sync", vs)>>)
          /\ UNCHANGED <<envVars, connVars, usedCodes, roomAdmins, legacyAdminVars,
                         memory, kickTimers>>

Control(s, data) ==
  \* the model stops skipping at the edge of its range of positions
  /\ data.action = "skip" =>
       LET k == SenderRoom(s) IN
       k # undefinedStr =>
         LET ct == Target(k).videoState.currentTime IN
         ct \in {undefined, NaN} \/ (ct >= 0 /\ ct <= MaxCurrentTime)
  /\ Recv(s, "control", data, H_control)

\* ---------------------------------------------------------------- ticker
\* syncInterval: every playing room's position is advanced to `now`.
TickState(vs, t) ==
  IF vs.isPlaying
  THEN [vs EXCEPT !.currentTime = Plus(@, t - vs.lastUpdate), !.lastUpdate = t]
  ELSE vs

Tick ==
  /\ ~crashed
  /\ IF config.SERVER_MODE
     THEN /\ rooms' = [c \in DOMAIN rooms |->
                         [rooms[c] EXCEPT !.videoState = TickState(@, now)]]
          /\ UNCHANGED videoState
     ELSE /\ videoState' = TickState(videoState, now)
          /\ UNCHANGED rooms
  /\ last' = [sock |-> null, ev |-> "tick", data |-> 0]
  /\ sent' = <<>>
  /\ UNCHANGED <<envVars, connVars, usedCodes, roomAdmins, PLAYLIST, adminSocketId,
                 clientBslStatus, clientDriftValues, legacyAdminVars, memory, asyncVars,
                 limiterVars>>

\* Time passes.  A 500 ms timer sees the second change at most once.
AdvanceClock ==
  /\ ~crashed
  /\ now < MaxTime
  /\ \A i \in DOMAIN timers : now = timers[i].at
  /\ now' = now + 1
  /\ last' = [sock |-> null, ev |-> "clock", data |-> 0]
  /\ sent' = <<>>
  /\ UNCHANGED <<config, crashed, connVars, rooms, usedCodes, roomAdmins, legacyVars,
                 legacyAdminVars, memory, asyncVars, limiterVars>>

\* The remote address waits for the length of a block.
Wait ==
  /\ ~crashed
  /\ now < MaxRateTime
  /\ now' = now + BLOCK_DURATION
  /\ last' = [sock |-> null, ev |-> "clock", data |-> 0]
  /\ sent' = <<>>
  /\ UNCHANGED <<config, crashed, connVars, rooms, usedCodes, roomAdmins, legacyVars,
                 legacyAdminVars, memory, asyncVars, limiterVars>>


\* ------------------------------------------------------------ set-playlist
EntryA == [filename |-> "a.mp4", isExternal |-> FALSE,
           selectedAudioTrack |-> undefined, selectedSubtitleTrack |-> undefined]
EntryB == [filename |-> "b.mkv", isExternal |-> TRUE,
           selectedAudioTrack |-> 1, selectedSubtitleTrack |-> 0]
EntryC == [filename |-> "c.mp4", isExternal |-> TRUE,
           selectedAudioTrack |-> undefined, selectedSubtitleTrack |-> undefined]
EntryD == [filename |-> "d.mp4", isExternal |-> TRUE,
           selectedAudioTrack |-> 2, selectedSubtitleTrack |-> undefined]

SetPlaylistInputs ==
  {[playlist |-> <<>>, mainVideoIndex |-> 0, startTime |-> 0],
   [playlist |-> <<EntryB>>, mainVideoIndex |-> 0, startTime |-> 0],
   [playlist |-> <<EntryA, EntryB>>, mainVideoIndex |-> 1, startTime |-> 3]}

\* The entries of the probe loop up to the first one whose filename is not a
\* string: item.filename.endsWith throws there and ends the loop.
Iterated(data) ==
  LET bad == {i \in DOMAIN data.playlist : ~Has(data.playlist[i], "filename")}
  IN IF bad = {} THEN DOMAIN data.playlist
     ELSE {i \in DOMAIN data.playlist : \A j \in bad : i < j}

\* The loop throws: data.playlist is not iterable, or an entry has no filename.
LoopThrows(data) ==
  ~Has(data, "playlist") \/ Iterated(data) # DOMAIN data.playlist

\* The handler awaits getTracksForFile for an entry that is not external.
NeedsProbe(data) == \E i \in Iterated(data) : ~data.playlist[i].isExternal

\* The in-handler admin check of multi-room mode.
HandlerAdmin(s, k) == k = Legacy \/ rooms[k].adminSocketId = s

\* The object a holder of reference tv writes to and emits.
TargetVS(k, tv) == IF tv = LiveRef THEN Target(k).videoState ELSE detached[tv]

RemoveAt(q, i) == SubSeq(q, 1, i - 1) \o SubSeq(q, i + 1, Len(q))

\* A holder of tv wrote vs to its object; the target's other fields are t1.
\* Objects nobody holds any more are dropped.
FinishAsync(k, tv, t1, vs, newPending, newTimers) ==
  /\ Store(k, IF tv = LiveRef THEN [t1 EXCEPT !.videoState = vs] ELSE t1)
  /\ pending' = newPending
  /\ timers' = newTimers
  /\ detached' =
       LET d1 == IF tv = LiveRef THEN detached ELSE [detached EXCEPT ![tv] = vs]
           used == {newPending[i].tv : i \in DOMAIN newPending}
                     \cup {newTimers[i].tv : i \in DOMAIN newTimers}
       IN [x \in DOMAIN d1 \cap used |-> d1[x]]

InstalledPlaylist(playlist, data) ==
  [playlist EXCEPT !.videos = data.playlist,
                   !.undefinedSlot = Hole,
                   !.mainVideoIndex = data.mainVideoIndex,
                   !.mainVideoStartTime = data.startTime,
                   !.currentIndex = 0]

\* The playback state written before 'playlist-update' goes out ...
InstalledState(vs, data, t) ==
  LET sel == IF Len(data.playlist) > 0 THEN EntrySelections(data.playlist[1])
             ELSE [audioTrack |-> vs.audioTrack, subtitleTrack |-> vs.subtitleTrack]
  IN [vs EXCEPT !.audioTrack = sel.audioTrack, !.subtitleTrack = sel.subtitleTrack,
                !.currentTime = 0, !.lastUpdate = t]
\* ... and the one the first 'sync' carries.
LaunchedState(vs) == [vs EXCEPT !.isPlaying = config.VIDEO_AUTOPLAY]

\* The handler from `targetPlaylist.videos = processedPlaylist` to its end.
Install(s, k, tv, data, newPending) ==
  LET t == Target(k)
      pl == InstalledPlaylist(t.playlist, data)
      vs == LaunchedState(InstalledState(TargetVS(k, tv), data, now))
      newTimers == IF config.VIDEO_AUTOPLAY THEN timers
                   ELSE Append(timers, [key |-> k, tv |-> tv, at |-> now])
  IN /\ FinishAsync(k, tv, [t EXCEPT !.playlist = pl], vs, newPending, newTimers)
     /\ sent' = <<Msg(RoomCast(k), "playlist-update", pl),
                  Msg(RoomCast(k), "sync", vs),
                  Msg({s} \cap OpenSockets, "playlist-set", [success |-> TRUE])>>
     /\ UNCHANGED <<envVars, connVars, usedCodes, roomAdmins, legacyAdminVars, memory,
                    kickTimers>>

H_set_playlist(s, data) ==
  LET k == SenderRoom(s) IN
  IF k = undefinedStr
  THEN Handled(s, "set-playlist", data, <<>>) /\ NothingChanges
  ELSE IF ~HandlerAdmin(s, k)
  THEN /\ Handled(s, "set-playlist", data,
                  <<Msg({s}, "playlist-set", [success |-> FALSE])>>)
       /\ NothingChanges
  ELSE IF ~Has(data, "playlist") THEN Throw(s, "set-playlist", data)
  ELSE IF NeedsProbe(data)
  THEN /\ pending' = Append(pending, [sock |-> s, key |-> k, data |-> data, tv |-> LiveRef])
       /\ Handled(s, "set-playlist", data, <<>>)
       /\ UNCHANGED <<envVars, connVars, rooms, usedCodes, roomAdmins, legacyVars,
                      legacyAdminVars, memory, timers, detached, kickTimers>>
  ELSE IF LoopThrows(data) THEN Throw(s, "set-playlist", data)
  ELSE /\ Install(s, k, LiveRef, data, pending)
       /\ last' = [sock |-> s, ev |-> "set-playlist", data |-> data]

SetPlaylist(s, data) ==
  /\ Len(pending) + Len(timers) < MaxPending
  /\ Recv(s, "set-playlist", data, H_set_playlist)

\* The probes of a suspended handler have all returned.
SetPlaylistResume(i) ==
  /\ ~crashed
  /\ i \in DOMAIN pending
  /\ IF LoopThrows(pending[i].data)
     THEN /\ crashed' = TRUE
          /\ sent' = <<>>
          /\ UNCHANGED <<config, now, connVars, rooms, usedCodes, roomAdmins, legacyVars,
                         legacyAdminVars, memory, asyncVars>>
     ELSE Install(pending[i].sock, pending[i].key, pending[i].tv, pending[i].data,
                  RemoveAt(pending, i))
  /\ last' = [sock |-> pending[i].sock, ev |-> "set-playlist-resume",
              data |-> pending[i].data]
  /\ UNCHANGED limiterVars

\* The 500 ms timer of a set-playlist with autoplay off.
PauseTimer ==
  /\ ~crashed
  /\ timers # <<>>
  /\ LET k == Head(timers).key
         tv == Head(timers).tv
         vs == [TargetVS(k, tv) EXCEPT !.isPlaying = FALSE]
     IN /\ FinishAsync(k, tv, Target(k), vs, pending, Tail(timers))
        /\ last' = [sock |-> null, ev |-> "pause-timer", data |-> k]
        /\ sent' = <<Msg(RoomCast(k), "sync", vs)>>
  /\ UNCHANGED <<envVars, connVars, usedCodes, roomAdmins, legacyAdminVars, memory,
                 kickTimers, limiterVars>>

\* ----------------------------------------------------- playlist position
\* A synchronous handler wrote playlist pl and playback state vs to target k.
Commit(s, ev, data, k, pl, vs, msgs) ==
  /\ Store(k, [Target(k) EXCEPT !.playlist = pl, !.videoState = vs])
  /\ Handled(s, ev, data, msgs)
  /\ UNCHANGED <<envVars, connVars, usedCodes, roomAdmins, legacyAdminVars, memory,
                 asyncVars>>

Ignored(s, ev, data) == Handled(s, ev, data, <<>>) /\ NothingChanges

\* The playback state on entering the entry at idx.
EnterEntry(vs, playlist, idx, t) ==
  LET sel == EntrySelections(playlist.videos[idx + 1])
  IN [vs EXCEPT !.audioTrack = sel.audioTrack, !.subtitleTrack = sel.subtitleTrack,
                !.currentTime = 0, !.lastUpdate = t]

\* skip-to-next-video
SkipTarget(playlist) == JsMod(Plus(playlist.currentIndex, 1), Len(playlist.videos))

H_skip_to_next_video(s, data) ==
  LET k == SenderRoom(s) IN
  IF k = undefinedStr \/ ~HandlerAdmin(s, k) THEN Ignored(s, "skip-to-next-video", data)
  ELSE LET t == Target(k)
           nextIndex == SkipTarget(t.playlist)
       IN IF Len(t.playlist.videos) = 0 THEN Ignored(s, "skip-to-next-video", data)
          \* videos[nextIndex] is undefined: reading its selection throws
          ELSE IF ~IndexOk(nextIndex, t.playlist) THEN Throw(s, "skip-to-next-video", data)
          ELSE LET pl == [t.playlist EXCEPT !.currentIndex = nextIndex]
                   vs == EnterEntry(t.videoState, pl, nextIndex, now)
               IN Commit(s, "skip-to-next-video", data, k, pl, vs,
                         <<Msg(RoomCast(k), "sync", vs),
                           Msg(RoomCast(k), "playlist-position", nextIndex),
                           Msg(RoomCast(k), "playlist-update", pl)>>)

SkipToNextVideo(s) == Recv(s, "skip-to-next-video", 0, H_skip_to_next_video)

\* playlist-next(nextIndex): any member, any value.
NextInputs == {undefined, -1, 0, 1, 5}

NextState(vs, playlist, nextIndex, t) ==
  IF IndexOk(nextIndex, playlist)
  THEN LET sel == EntrySelections(playlist.videos[nextIndex + 1])
       IN [vs EXCEPT !.audioTrack = sel.audioTrack, !.subtitleTrack = sel.subtitleTrack,
                     !.lastUpdate = t]
  ELSE [vs EXCEPT !.lastUpdate = t]

H_playlist_next(s, nextIndex) ==
  LET k == SenderRoom(s) IN
  IF k = undefinedStr THEN Ignored(s, "playlist-next", nextIndex)
  ELSE LET t == Target(k)
           pl == [t.playlist EXCEPT !.currentIndex = nextIndex]
           vs == NextState(t.videoState, t.playlist, nextIndex, now)
       IN Commit(s, "playlist-next", nextIndex, k, pl, vs,
                 <<Msg(RoomCast(k), "sync", vs),
                   Msg(RoomCast(k), "playlist-position", nextIndex)>>)

PlaylistNext(s, nextIndex) == Recv(s, "playlist-next", nextIndex, H_playlist_next)

\* playlist-jump(index)
JumpInputs == {undefined, -1, 0, 1, 2}

JumpAccepted(index, playlist) ==
  isValidInteger(index) /\ validatePlaylistIndex(index, playlist)

H_playlist_jump(s, index) ==
  LET k == SenderRoom(s) IN
  IF ~isValidInteger(index) \/ k = undefinedStr \/ ~HandlerAdmin(s, k)
  THEN Ignored(s, "playlist-jump", index)
  ELSE LET t == Target(k) IN
       IF ~JumpAccepted(index, t.playlist) THEN Ignored(s, "playlist-jump", index)
       \* video is undefined: reading its selection throws
       ELSE IF t.playlist.videos[index + 1] = Hole THEN Throw(s, "playlist-jump", index)
       ELSE LET pl == [t.playlist EXCEPT !.currentIndex = index]
                vs == EnterEntry(t.videoState, pl, index, now)
            IN Commit(s, "playlist-jump", index, k, pl, vs,
                      <<Msg(RoomCast(k), "sync", vs),
                        Msg(RoomCast(k), "playlist-position", index),
                        Msg(RoomCast(k), "playlist-update", pl)>>)

PlaylistJump(s, index) == Recv(s, "playlist-jump", index, H_playlist_jump)

\* track-change {videoIndex, type, trackIndex}
TrackChangeInputs ==
  [videoIndex : {-1, 0, 1}, type : {"audio", "subtitle"}, trackIndex : {2, -2}]

TrackChangeValid(data) ==
  /\ isValidInteger(data.videoIndex) /\ data.videoIndex >= 0
  /\ data.type \in {"audio", "subtitle"}
  /\ validateTrackIndex(data.trackIndex)

SelectOnEntry(video, data) ==
  IF data.type = "audio" THEN [video EXCEPT !.selectedAudioTrack = data.trackIndex]
  ELSE [video EXCEPT !.selectedSubtitleTrack = data.trackIndex]

\* if (data.videoIndex === targetPlaylist.currentIndex)
IsCurrentEntryAlways(playlist, data) == TRUE

IsCurrentEntry(playlist, data) == data.videoIndex = playlist.currentIndex

H_track_change(s, data) ==
  LET k == SenderRoom(s) IN
  IF k = undefinedStr \/ ~HandlerAdmin(s, k) \/ ~TrackChangeValid(data)
  THEN Ignored(s, "track-change", data)
  ELSE LET t == Target(k) IN
       IF ~(Len(t.playlist.videos) > data.videoIndex) THEN Ignored(s, "track-change", data)
       ELSE LET pl == [t.playlist EXCEPT !.videos[data.videoIndex + 1] =
                                           SelectOnEntry(@, data)]
                current == IsCurrentEntry(t.playlist, data)
                vs == IF current THEN ApplySelectTrack(t.videoState, data, now)
                      ELSE t.videoState
            IN Commit(s, "track-change", data, k, pl, vs,
                      (IF current THEN <<Msg(RoomCast(k), "sync", vs)>> ELSE <<>>)
                      \o <<Msg(RoomCast(k), "track-change", data)>>)

TrackChange(s, data) == Recv(s, "track-change", data, H_track_change)

\* playlist-reorder {fromIndex, toIndex}
ReorderInputs == [fromIndex : {-1, 0, 1}, toIndex : {0, 1, 2}]
\* ... and with an index left out of the payload.
ReorderPayloads ==
  [fromIndex : {0, 1, 2}, toIndex : {0, 1, 2, 3}]
    \cup [fromIndex : {undefined}, toIndex : {0, 1, undefined}]
    \cup [fromIndex : {0}, toIndex : {undefined}]

\* JavaScript < and >= : false when an operand is undefined.
Less(a, b) == a # undefined /\ b # undefined /\ a < b
NotLess(a, b) == a # undefined /\ b # undefined /\ a >= b

ReorderValid(data, playlist) ==
  ~(Less(data.fromIndex, 0) \/ NotLess(data.fromIndex, Len(playlist.videos))
      \/ Less(data.toIndex, 0) \/ NotLess(data.toIndex, Len(playlist.videos)))

Swapped(idx, data) ==
  IF idx = data.fromIndex THEN data.toIndex
  ELSE IF idx = data.toIndex THEN data.fromIndex
  ELSE idx

\* videos[index], for an index that passed the validation.
EntryAt(playlist, index) ==
  IF index = undefined THEN playlist.undefinedSlot ELSE playlist.videos[index + 1]

\* [videos[from], videos[to]] = [videos[to], videos[from]], and the indices.
Reordered(playlist, data) ==
  [playlist EXCEPT
     !.videos = [i \in DOMAIN @ |->
                   IF i - 1 = data.fromIndex THEN EntryAt(playlist, data.toIndex)
                   ELSE IF i - 1 = data.toIndex THEN EntryAt(playlist, data.fromIndex)
                   ELSE @[i]],
     !.undefinedSlot =
        IF data.fromIndex = undefined THEN EntryAt(playlist, data.toIndex)
        ELSE IF data.toIndex = undefined THEN EntryAt(playlist, data.fromIndex)
        ELSE @,
     !.mainVideoIndex = Swapped(@, data),
     !.currentIndex = Swapped(@, data)]

H_playlist_reorder(s, data) ==
  LET k == SenderRoom(s) IN
  IF k = undefinedStr \/ ~HandlerAdmin(s, k) THEN Ignored(s, "playlist-reorder", data)
  ELSE LET t == Target(k) IN
       IF ~ReorderValid(data, t.playlist) THEN Ignored(s, "playlist-reorder", data)
       ELSE LET pl == Reordered(t.playlist, data)
            IN Commit(s, "playlist-reorder", data, k, pl, t.videoState,
                      <<Msg(RoomCast(k), "playlist-update", pl)>>)

PlaylistReorder(s, data) == Recv(s, "playlist-reorder", data, H_playlist_reorder)

\* ------------------------------------------------- single-room admin lock
\* bsl-admin-register {fingerprint?}
\* A check that forgets the comparison with the bound fingerprint.
RegisterRefusedWhenMissing(fingerprint) ==
  config.ADMIN_FINGERPRINT_LOCK /\ fingerprint = undefinedStr

RegisterRefused(fingerprint) ==
  /\ config.ADMIN_FINGERPRINT_LOCK
  /\ \/ fingerprint = undefinedStr
     \/ (registeredAdminFingerprint # null /\ registeredAdminFingerprint # fingerprint)

\* The refused socket is closed after the grace period, on a mismatch only.
RegisterKicks(fingerprint) ==
  /\ config.ADMIN_FINGERPRINT_LOCK
  /\ fingerprint # undefinedStr
  /\ registeredAdminFingerprint # null /\ registeredAdminFingerprint # fingerprint

RegisterBinds(fingerprint) ==
  config.ADMIN_FINGERPRINT_LOCK /\ fingerprint # undefinedStr
    /\ registeredAdminFingerprint = null

H_bsl_admin_register(s, data) ==
  IF RegisterRefused(data.fingerprint)
  THEN /\ Handled(s, "bsl-admin-register", data,
                  <<Msg({s}, "admin-auth-result", [success |-> FALSE])>>)
       /\ kickTimers' = IF RegisterKicks(data.fingerprint) THEN kickTimers \cup {s}
                        ELSE kickTimers
       /\ UNCHANGED <<envVars, connVars, rooms, usedCodes, roomAdmins, legacyVars,
                      legacyAdminVars, memory, pending, timers, detached>>
  ELSE /\ registeredAdminFingerprint' =
            IF RegisterBinds(data.fingerprint) THEN data.fingerprint
            ELSE registeredAdminFingerprint
       /\ verifiedAdminSockets' = verifiedAdminSockets \cup {s}
       /\ adminSocketId' = s
       /\ Handled(s, "bsl-admin-register", data,
                  <<Msg({s}, "admin-auth-result", [success |-> TRUE])>>)
       /\ UNCHANGED <<envVars, connVars, rooms, usedCodes, roomAdmins, PLAYLIST,
                      videoState, clientBslStatus, clientDriftValues, connectedClients,
                      memory, asyncVars>>

BslAdminRegister(s, fingerprint) ==
  Recv(s, "bsl-admin-register", [fingerprint |-> fingerprint], H_bsl_admin_register)

\* setTimeout(() => socket.disconnect(true), 1000)
KickTimer(s) == s \in kickTimers /\ Disconnect(s)

\* client-register {fingerprint?}
H_client_register(s, data) ==
  /\ connectedClients' = MapSet(connectedClients, s, data.fingerprint)
  /\ Handled(s, "client-register", data, <<>>)
  /\ UNCHANGED <<envVars, connVars, rooms, usedCodes, roomAdmins, legacyVars,
                 verifiedAdminSockets, registeredAdminFingerprint, memory, asyncVars>>

ClientRegister(s, fingerprint) ==
  Recv(s, "client-register",
       [fingerprint |-> IF fingerprint = undefinedStr THEN "unknown" ELSE fingerprint],
       H_client_register)

\* -------------------------------------------------------------------- BSL
toLowerCase(name) ==
  CASE name = "B.MKV" -> "b.mkv"
    [] name = "X.AVI" -> "x.avi"
    [] OTHER -> name

\* name.substring(name.lastIndexOf('.')).toLowerCase()
ExtOf(name) ==
  CASE toLowerCase(name) \in {"a.mp4", "c.mp4", "d.mp4"} -> ".mp4"
    [] toLowerCase(name) = "b.mkv" -> ".mkv"
    [] toLowerCase(name) = "x.avi" -> ".avi"
    [] toLowerCase(name) = "song.flac" -> ".flac"
    [] toLowerCase(name) = "holiday.jpg" -> ".jpg"
    [] OTHER -> toLowerCase(name)

\* mimeMap[serverExt] || ''
mimeMap(ext) ==
  CASE ext = ".mp4" -> "video/mp4"
    [] ext = ".mkv" -> "video/x-matroska"
    [] ext = ".avi" -> "video/x-msvideo"
    [] ext = ".jpg" -> "image/jpeg"
    [] OTHER -> ""

\* mime.split('/')[0]
Family(mime) ==
  CASE mime \in {"video/mp4", "video/x-matroska", "video/x-msvideo"} -> "video"
    [] mime = "image/jpeg" -> "image"
    [] OTHER -> mime

\* type.startsWith(prefix), for a MIME type and a family or the empty string
StartsWith(type, prefix) == prefix = "" \/ Family(type) = prefix

\* fs.statSync(media/<filename>).size; undefined where the call throws.
ServerSize(filename) == IF filename = "b.mkv" THEN 900000000 ELSE undefined

SIZE_TOLERANCE == 1572864

Abs(x) == IF x < 0 THEN 0 - x ELSE x

\* A reported file descriptor without size and type.
File(name) == [name |-> name, size |-> undefined, type |-> ""]

\* A write to a map of the target (BSL status, drift).
StoreMaps(s, ev, data, k, t, mem, msgs) ==
  /\ Store(k, t)
  /\ memory' = mem
  /\ Handled(s, ev, data, msgs)
  /\ UNCHANGED <<envVars, connVars, usedCodes, roomAdmins, legacyAdminVars, asyncVars>>

\* bsl-folder-selected {clientId?, files}
FolderInputs ==
  [clientId : {undefinedStr, "fpB"}, files : {<<File("B.MKV")>>, <<File("x.avi")>>}]

ClientMatches(clientId) ==
  IF clientId \in DOMAIN memory.bslMatches THEN memory.bslMatches[clientId] ELSE EmptyMap

\* matchScore of the advanced matcher.
MatchScore(file, video) ==
  LET serverExt == ExtOf(video.filename)
      expectedMime == mimeMap(serverExt)
      b2n(b) == IF b THEN 1 ELSE 0
  IN b2n(toLowerCase(file.name) = toLowerCase(video.filename))
     + b2n(ExtOf(file.name) = serverExt)
     + b2n(/\ file.size # undefined
           /\ ServerSize(video.filename) # undefined
           /\ Abs(file.size - ServerSize(video.filename)) <= SIZE_TOLERANCE)
     + b2n(/\ file.type # ""
           /\ \/ file.type = expectedMime
              \/ StartsWith(file.type, Family(expectedMime)))

FileMatches(file, video, clientMatches) ==
  \/ /\ toLowerCase(file.name) \in DOMAIN clientMatches
     /\ clientMatches[toLowerCase(file.name)] = toLowerCase(video.filename)
  \/ IF config.BSL_ADVANCED_MATCH
     THEN MatchScore(file, video) >= config.BSL_ADVANCED_MATCH_THRESHOLD
     ELSE toLowerCase(file.name) = toLowerCase(video.filename)

\* matchedVideos: playlist index -> the last reported file that matches it.
MatchedVideos(playlist, files, clientMatches) ==
  LET hit(idx) == {i \in DOMAIN files :
                     FileMatches(files[i], playlist.videos[idx + 1], clientMatches)}
      Max(S) == CHOOSE x \in S : \A y \in S : y <= x
  IN [idx \in {j \in 0..(Len(playlist.videos) - 1) : hit(j) # {}} |->
        files[Max(hit(idx))].name]

\* A handler that appends the reported files to the list it stored before.
H_bsl_folder_selected_Appending(s, data) ==
  LET k == SenderRoom(s) IN
  IF k = undefinedStr THEN Ignored(s, "bsl-folder-selected", data)
  \* data.files.length
  ELSE IF ~Has(data, "files") THEN Throw(s, "bsl-folder-selected", data)
  ELSE LET t == Target(k)
           clientId == IF data.clientId = undefinedStr THEN s ELSE data.clientId
           files == IF s \in DOMAIN t.clientBslStatus
                    THEN t.clientBslStatus[s].files \o data.files ELSE data.files
           matched == MatchedVideos(t.playlist, files, ClientMatches(clientId))
           status == [clientId |-> clientId, folderSelected |-> TRUE,
                      files |-> files, matchedVideos |-> matched]
           t1 == [t EXCEPT !.clientBslStatus = MapSet(@, s, status)]
       IN StoreMaps(s, "bsl-folder-selected", data, k, t1, memory,
                    BslStatusMsgs(t1) \o <<Msg({s}, "bsl-match-result", matched)>>)

H_bsl_folder_selected(s, data) ==
  LET k == SenderRoom(s) IN
  IF k = undefinedStr THEN Ignored(s, "bsl-folder-selected", data)
  \* data.files.length
  ELSE IF ~Has(data, "files") THEN Throw(s, "bsl-folder-selected", data)
  ELSE LET t == Target(k)
           clientId == IF data.clientId = undefinedStr THEN s ELSE data.clientId
           matched == MatchedVideos(t.playlist, data.files, ClientMatches(clientId))
           status == [clientId |-> clientId, folderSelected |-> TRUE,
                      files |-> data.files, matchedVideos |-> matched]
           t1 == [t EXCEPT !.clientBslStatus = MapSet(@, s, status)]
       IN StoreMaps(s, "bsl-folder-selected", data, k, t1, memory,
                    BslStatusMsgs(t1) \o <<Msg({s}, "bsl-match-result", matched)>>)

BslFolderSelected(s, data) == Recv(s, "bsl-folder-selected", data, H_bsl_folder_selected)

\* bsl-check-request
Polled(k, t) ==
  {x \in (IF k = Legacy THEN OpenSockets ELSE DOMAIN rooms[k].clients \cap OpenSockets) :
     /\ x # t.adminSocketId
     /\ ~(x \in DOMAIN t.clientBslStatus /\ t.clientBslStatus[x].folderSelected)}

H_bsl_check_request(s, data) ==
  LET k == SenderRoom(s) IN
  IF k = undefinedStr \/ ~HandlerAdmin(s, k) THEN Ignored(s, "bsl-check-request", data)
  ELSE /\ Handled(s, "bsl-check-request", data,
            <<Msg(Polled(k, Target(k)), "bsl-check-request", Target(k).playlist.videos),
              Msg({s}, "bsl-check-started", Cardinality(Polled(k, Target(k))))>>)
       /\ NothingChanges

BslCheckRequest(s) == Recv(s, "bsl-check-request", 0, H_bsl_check_request)

\* bsl-get-status
H_bsl_get_status(s, data) ==
  /\ Handled(s, "bsl-get-status", data,
       IF config.SERVER_MODE
       THEN IF SenderRoom(s) = undefinedStr THEN <<>>
            ELSE BslStatusMsgs(Target(SenderRoom(s)))
       ELSE BslStatusMsgs(LegacyTarget))
  /\ NothingChanges

BslGetStatus(s) == Recv(s, "bsl-get-status", 0, H_bsl_get_status)

\* bsl-manual-match {clientSocketId, clientFileName, playlistIndex}
ManualMatchInputs ==
  [clientSocketId : Sockets, clientFileName : {"X.AVI"}, playlistIndex : {0, 5}]

setBslMatch(mem, clientId, clientFileName, playlistFileName) ==
  [mem EXCEPT !.bslMatches =
     MapSet(@, clientId, MapSet(IF clientId \in DOMAIN @ THEN @[clientId] ELSE EmptyMap,
                                clientFileName, playlistFileName))]

H_bsl_manual_match(s, data) ==
  LET k == SenderRoom(s) IN
  IF k = undefinedStr \/ ~HandlerAdmin(s, k) THEN Ignored(s, "bsl-manual-match", data)
  ELSE LET t == Target(k) IN
       IF data.clientSocketId \notin DOMAIN t.clientBslStatus
       THEN Ignored(s, "bsl-manual-match", data)
       ELSE LET old == t.clientBslStatus[data.clientSocketId]
                matched == MapSet(old.matchedVideos, data.playlistIndex, data.clientFileName)
                t1 == [t EXCEPT !.clientBslStatus[data.clientSocketId].matchedVideos = matched]
                mem == IF IndexOk(data.playlistIndex, t.playlist)
                       THEN setBslMatch(memory, old.clientId,
                              toLowerCase(data.clientFileName),
                              toLowerCase(t.playlist.videos[data.playlistIndex + 1].filename))
                       ELSE memory
            IN StoreMaps(s, "bsl-manual-match", data, k, t1, mem,
                 <<Msg({data.clientSocketId} \cap OpenSockets, "bsl-match-result", matched)>>
                 \o BslStatusMsgs(t1))

BslManualMatch(s, data) == Recv(s, "bsl-manual-match", data, H_bsl_manual_match)

\* bsl-set-drift {clientFingerprint, playlistIndex, driftSeconds}
DriftInputs ==
  [clientFingerprint : {"fpB", undefinedStr}, playlistIndex : {-1, 0, 1},
   driftSeconds : {undefined, -75, -60, 30, 60, 75}]

isInRange(val, min, max) == val \notin {undefined, NaN} /\ val >= min /\ val <= max
validateDriftSeconds(drift) == isInRange(drift, DRIFT_MIN, DRIFT_MAX)
\* Math.max(-60, Math.min(60, parseInt(driftSeconds) || 0))
ClampDrift(drift) ==
  LET n == IF drift \in {undefined, NaN} THEN 0 ELSE drift
  IN IF n < DRIFT_MIN THEN DRIFT_MIN ELSE IF n > DRIFT_MAX THEN DRIFT_MAX ELSE n

\* The sockets registered under a fingerprint.
SocketsOf(k, fingerprint) ==
  LET reg == IF k = Legacy THEN connectedClients ELSE rooms[k].clients
  IN {x \in DOMAIN reg : reg[x] = fingerprint} \cap OpenSockets

H_bsl_set_drift(s, data) ==
  LET k == SenderRoom(s) IN
  IF k = undefinedStr \/ ~HandlerAdmin(s, k) THEN Ignored(s, "bsl-set-drift", data)
  ELSE IF \/ data.clientFingerprint = undefinedStr
          \/ ~(isValidInteger(data.playlistIndex) /\ data.playlistIndex >= 0)
          \/ ~validateDriftSeconds(data.driftSeconds)
  THEN Ignored(s, "bsl-set-drift", data)
  ELSE LET t == Target(k)
           fp == data.clientFingerprint
           old == IF fp \in DOMAIN t.clientDriftValues THEN t.clientDriftValues[fp]
                  ELSE EmptyMap
           drifts == MapSet(old, data.playlistIndex, ClampDrift(data.driftSeconds))
           t1 == [t EXCEPT !.clientDriftValues = MapSet(@, fp, drifts)]
       IN StoreMaps(s, "bsl-set-drift", data, k, t1, memory,
            <<Msg(SocketsOf(k, fp), "bsl-drift-update", drifts)>> \o BslStatusMsgs(t1))

BslSetDrift(s, data) == Recv(s, "bsl-set-drift", data, H_bsl_set_drift)

\* set-client-name {clientId, displayName}, set-client-display-name
\* {fingerprint, displayName}
NameInputs == [clientId : {"fpB"}, displayName : {"Bob"}]

setClientName(mem, clientId, name) ==
  [mem EXCEPT !.clientNames = MapSet(@, clientId, name)]

H_set_client_name(s, data) ==
  LET k == SenderRoom(s) IN
  IF k = undefinedStr \/ ~HandlerAdmin(s, k) THEN Ignored(s, "set-client-name", data)
  ELSE StoreMaps(s, "set-client-name", data, k, Target(k),
                 setClientName(memory, data.clientId, data.displayName),
                 BslStatusMsgs(Target(k)))

SetClientName(s, data) == Recv(s, "set-client-name", data, H_set_client_name)

H_set_client_display_name(s, data) ==
  /\ memory' = setClientName(memory, data.clientId, data.displayName)
  /\ Handled(s, "set-client-display-name", data, <<>>)
  /\ UNCHANGED <<envVars, connVars, rooms, usedCodes, roomAdmins, legacyVars,
                 legacyAdminVars, asyncVars>>

SetClientDisplayName(s, data) ==
  Recv(s, "set-client-display-name", data, H_set_client_display_name)

\* get-client-list
ClientList(k) ==
  IF k = Legacy THEN DOMAIN connectedClients \ verifiedAdminSockets
  ELSE DOMAIN rooms[k].clients \ {rooms[k].adminSocketId}

H_get_client_list(s, data) ==
  LET k == SenderRoom(s) IN
  IF k = undefinedStr THEN Ignored(s, "get-client-list", data)
  ELSE /\ Handled(s, "get-client-list", data, <<Msg({s}, "client-list", ClientList(k))>>)
       /\ NothingChanges

GetClientList(s) == Recv(s, "get-client-list", 0, H_get_client_list)

\* ---------------------------------------------------------- specifications
\* Multi-room mode: the life of rooms and of their admin seat.
RoomsConfig ==
  [SERVER_MODE : {TRUE}, ADMIN_FINGERPRINT_LOCK : {FALSE}, JOIN_MODE : {"sync"},
   VIDEO_AUTOPLAY : {TRUE}, CLIENT_CONTROLS_DISABLED : {FALSE},
   CLIENT_SYNC_DISABLED : {FALSE}]

RoomsInit == InitWith(RoomsConfig)

\* One room is followed from its creation to its end; connections are
\* interchangeable, so the creating one is s1.
RoomsNext ==
  \/ \E s \in Sockets : Connect(s)
  \/ \E s \in Sockets : Disconnect(s)
  \/ usedCodes = {} /\ CreateRoom("s1", "fpA")
  \/ \E s \in Sockets, code \in CodeInputs, fp \in FingerprintInputs :
       JoinRoom(s, code, fp)
  \/ \E s \in Sockets : LeaveRoom(s)
  \/ \E s \in Sockets, code \in {"ROOMAA", "roomaa"}, fp \in Fingerprints :
       DeleteRoom(s, code, fp)
  \/ \E s \in Sockets :
       SetPlaylist(s, [playlist |-> <<EntryB>>, mainVideoIndex |-> 0, startTime |-> 0])

RoomsSpec == RoomsInit /\ [][RoomsNext]_vars

\* Single-room mode with the admin fingerprint lock on.
LockConfig ==
  [SERVER_MODE : {FALSE}, ADMIN_FINGERPRINT_LOCK : {TRUE}, JOIN_MODE : {"sync"},
   VIDEO_AUTOPLAY : {TRUE}, CLIENT_CONTROLS_DISABLED : {FALSE},
   CLIENT_SYNC_DISABLED : {FALSE}]

LockInit == InitWith(LockConfig)

LockNext ==
  \/ \E s \in Sockets : Connect(s)
  \/ \E s \in Sockets : Disconnect(s)
  \/ \E s \in Sockets, fp \in FingerprintInputs : BslAdminRegister(s, fp)
  \/ \E s \in Sockets : KickTimer(s)
  \/ \E s \in Sockets, fp \in Fingerprints : ClientRegister(s, fp)
  \/ \E s \in Sockets :
       SetPlaylist(s, [playlist |-> <<EntryB>>, mainVideoIndex |-> 0, startTime |-> 0])

LockSpec == LockInit /\ [][LockNext]_vars

\* The admin gate, in multi-room mode and in single-room mode with the lock
\* on and off: every gated command, from the admin and from a viewer.
GateConfig ==
  {c \in [SERVER_MODE : BOOLEAN, ADMIN_FINGERPRINT_LOCK : BOOLEAN, JOIN_MODE : {"sync"},
          VIDEO_AUTOPLAY : {TRUE}, CLIENT_CONTROLS_DISABLED : {FALSE},
          CLIENT_SYNC_DISABLED : {FALSE}] :
     ~(c.SERVER_MODE /\ c.ADMIN_FINGERPRINT_LOCK)}

GateInit == InitWith(GateConfig)

GateSockets == {"s1", "s2"}

GateNext ==
  \/ \E s \in GateSockets : Connect(s)
  \/ usedCodes = {} /\ CreateRoom("s1", "fpA")
  \/ JoinRoom("s2", "ROOMAA", "fpB")
  \/ ~config.SERVER_MODE /\ \E s \in GateSockets : BslAdminRegister(s, "fpA")
  \/ ~config.SERVER_MODE /\ ClientRegister("s2", "fpB")
  \/ BslFolderSelected("s2", [clientId |-> "fpB", files |-> <<File("x.avi")>>])
  \/ \E s \in GateSockets :
       SetPlaylist(s, [playlist |-> <<EntryB>>, mainVideoIndex |-> 0, startTime |-> 0])
  \/ \E s \in GateSockets : PlaylistReorder(s, [fromIndex |-> 0, toIndex |-> 0])
  \/ \E s \in GateSockets : PlaylistJump(s, 0)
  \/ \E s \in GateSockets :
       TrackChange(s, [videoIndex |-> 0, type |-> "audio", trackIndex |-> 2])
  \/ \E s \in GateSockets : SkipToNextVideo(s)
  \/ \E s \in GateSockets : BslCheckRequest(s)
  \/ \E s \in GateSockets : BslGetStatus(s)
  \/ \E s \in GateSockets :
       BslManualMatch(s, [clientSocketId |-> "s2", clientFileName |-> "X.AVI",
                          playlistIndex |-> 0])
  \/ \E s \in GateSockets :
       BslSetDrift(s, [clientFingerprint |-> "fpB", playlistIndex |-> 0,
                       driftSeconds |-> 30])
  \/ \E s \in GateSockets : SetClientName(s, [clientId |-> "fpB", displayName |-> "Bob"])
  \/ \E s \in GateSockets : GetClientList(s)
  \/ \E s \in GateSockets :
       SetClientDisplayName(s, [clientId |-> "fpB", displayName |-> "Rob"])
  \/ \E s \in GateSockets, fp \in Fingerprints : DeleteRoom(s, "ROOMAA", fp)

GateSpec == GateInit /\ [][GateNext]_vars

\* Joining, in both modes and both join modes, while the admin plays and seeks.
JoinConfig ==
  [SERVER_MODE : BOOLEAN, ADMIN_FINGERPRINT_LOCK : {FALSE}, JOIN_MODE : {"sync", "reset"},
   VIDEO_AUTOPLAY : {TRUE}, CLIENT_CONTROLS_DISABLED : {FALSE},
   CLIENT_SYNC_DISABLED : {FALSE}]

JoinInit == InitWith(JoinConfig)

JoinControls ==
  [action : {"playpause"}, state : BOOLEAN] \cup [action : {"seek"}, time : {42}]
    \cup [action : {"selectTrack"}, type : {"audio"}, trackIndex : {1}]

JoinNext ==
  \/ \E s \in Sockets : Connect(s)
  \/ \E s \in Sockets : Disconnect(s)
  \/ usedCodes = {} /\ CreateRoom("s1", "fpA")
  \/ \E s \in Sockets : JoinRoom(s, "ROOMAA", "fpB")
  \/ \E data \in JoinControls : Control("s1", data)
  \/ Tick
  \/ AdvanceClock

JoinSpec == JoinInit /\ [][JoinNext]_vars

\* The playback clock: one controller, with autoplay on and off, pressing every
\* control, pushing raw state and launching playlists while time passes.
ClockConfig ==
  [SERVER_MODE : BOOLEAN, ADMIN_FINGERPRINT_LOCK : {FALSE}, JOIN_MODE : {"sync"},
   VIDEO_AUTOPLAY : BOOLEAN, CLIENT_CONTROLS_DISABLED : {FALSE},
   CLIENT_SYNC_DISABLED : {FALSE}]

ClockInit == InitWith(ClockConfig)

ClockControls ==
  [action : {"playpause"}, state : BOOLEAN] \cup [action : {"seek"}, time : {42}]
    \cup {[action |-> "none", isPlaying |-> TRUE, currentTime |-> undefined],
          [action |-> "none", isPlaying |-> FALSE, currentTime |-> 0]}

ClockPlaylists ==
  {[playlist |-> <<EntryB>>, mainVideoIndex |-> 0, startTime |-> 0],
   [playlist |-> <<EntryA, EntryB>>, mainVideoIndex |-> 1, startTime |-> 3]}

ClockNext ==
  \/ Connect("s1")
  \/ usedCodes = {} /\ CreateRoom("s1", "fpA")
  \/ \E data \in ClockControls : Control("s1", data)
  \/ \E data \in ClockPlaylists : SetPlaylist("s1", data)
  \/ SetPlaylistResume(1)
  \/ PauseTimer
  \/ Tick
  \/ AdvanceClock

ClockSpec == ClockInit /\ [][ClockNext]_vars

\* The playlist position: the admin and a viewer sending every position
\* command with every payload, on an empty, a one-entry and a two-entry list.
ListConfig ==
  [SERVER_MODE : BOOLEAN, ADMIN_FINGERPRINT_LOCK : {FALSE}, JOIN_MODE : {"sync"},
   VIDEO_AUTOPLAY : {TRUE}, CLIENT_CONTROLS_DISABLED : {FALSE},
   CLIENT_SYNC_DISABLED : {FALSE}]

ListInit == InitWith(ListConfig)

ListSockets == {"s1", "s2"}

ListNext ==
  \/ \E s \in ListSockets : Connect(s)
  \/ usedCodes = {} /\ CreateRoom("s1", "fpA")
  \/ JoinRoom("s2", "ROOMAA", "fpB")
  \/ \E data \in SetPlaylistInputs : SetPlaylist("s1", data)
  \/ SetPlaylistResume(1)
  \/ \E s \in ListSockets : SkipToNextVideo(s)
  \/ \E s \in ListSockets, nextIndex \in NextInputs : PlaylistNext(s, nextIndex)
  \/ \E s \in ListSockets, index \in JumpInputs : PlaylistJump(s, index)
  \/ \E s \in ListSockets, data \in ReorderInputs : PlaylistReorder(s, data)

ListSpec == ListInit /\ [][ListNext]_vars

\* The drift table: the admin and a viewer sending bsl-set-drift with drifts
\* inside, on and outside the range, to a viewer registered as fpB.
DriftConfig ==
  [SERVER_MODE : BOOLEAN, ADMIN_FINGERPRINT_LOCK : {FALSE}, JOIN_MODE : {"sync"},
   VIDEO_AUTOPLAY : {TRUE}, CLIENT_CONTROLS_DISABLED : {FALSE},
   CLIENT_SYNC_DISABLED : {FALSE}]

DriftInit == InitWith(DriftConfig)

DriftSockets == {"s1", "s2"}

DriftNext ==
  \/ \E s \in DriftSockets : Connect(s)
  \/ Disconnect("s2")
  \/ usedCodes = {} /\ CreateRoom("s1", "fpA")
  \/ JoinRoom("s2", "ROOMAA", "fpB")
  \/ ~config.SERVER_MODE /\ ClientRegister("s2", "fpB")
  \/ \E s \in DriftSockets, data \in DriftInputs : BslSetDrift(s, data)

DriftSpec == DriftInit /\ [][DriftNext]_vars

\* Who may control: the admin and a viewer, under every combination of
\* client_controls_disabled and client_sync_disabled, pushing raw state,
\* pressing pause and moving through a one-entry playlist.
ControlsConfig ==
  [SERVER_MODE : BOOLEAN, ADMIN_FINGERPRINT_LOCK : {FALSE}, JOIN_MODE : {"sync"},
   VIDEO_AUTOPLAY : {TRUE}, CLIENT_CONTROLS_DISABLED : BOOLEAN,
   CLIENT_SYNC_DISABLED : BOOLEAN]

ControlsInit == InitWith(ControlsConfig)

ControlsSockets == {"s1", "s2"}

PushControls ==
  [action : {"none"}, isPlaying : BOOLEAN, currentTime : {0, 7}]
    \cup [action : {"playpause"}, state : {FALSE}]

ControlsNext ==
  \/ \E s \in ControlsSockets : Connect(s)
  \/ usedCodes = {} /\ CreateRoom("s1", "fpA")
  \/ JoinRoom("s2", "ROOMAA", "fpB")
  \/ ~config.SERVER_MODE /\ BslAdminRegister("s1", "fpA")
  \/ SetPlaylist("s1", [playlist |-> <<EntryB>>, mainVideoIndex |-> 0, startTime |-> 0])
  \/ \E s \in ControlsSockets, data \in PushControls : Control(s, data)
  \/ \E s \in ControlsSockets, nextIndex \in {0, 1} : PlaylistNext(s, nextIndex)
  \/ \E s \in ControlsSockets : PlaylistJump(s, 0)
  \/ \E s \in ControlsSockets : SkipToNextVideo(s)
  \/ \E s \in ControlsSockets :
       TrackChange(s, [videoIndex |-> 0, type |-> "audio", trackIndex |-> 2])
  \/ AdvanceClock

ControlsSpec == ControlsInit /\ [][ControlsNext]_vars

\* Reordering a three-entry playlist, with the indices in and out of range and
\* with an index missing, while the admin jumps between the entries.
ReorderConfig ==
  [SERVER_MODE : BOOLEAN, ADMIN_FINGERPRINT_LOCK : {FALSE}, JOIN_MODE : {"sync"},
   VIDEO_AUTOPLAY : {TRUE}, CLIENT_CONTROLS_DISABLED : {FALSE},
   CLIENT_SYNC_DISABLED : {FALSE}]

ReorderInit == InitWith(ReorderConfig)

ReorderNext ==
  \/ Connect("s1")
  \/ usedCodes = {} /\ CreateRoom("s1", "fpA")
  \/ SetPlaylist("s1", [playlist |-> <<EntryB, EntryC, EntryD>>, mainVideoIndex |-> 1,
                        startTime |-> 0])
  \/ \E index \in {0, 1, 2} : PlaylistJump("s1", index)
  \/ \E data \in ReorderPayloads : PlaylistReorder("s1", data)

ReorderSpec == ReorderInit /\ [][ReorderNext]_vars

\* The track selections: one admin, a playlist of two entries, the current
\* index moved by playlist-jump, track-change on either entry, time passing.
TrackConfig ==
  [SERVER_MODE : BOOLEAN, ADMIN_FINGERPRINT_LOCK : {FALSE}, JOIN_MODE : {"sync"},
   VIDEO_AUTOPLAY : {TRUE}, CLIENT_CONTROLS_DISABLED : {FALSE},
   CLIENT_SYNC_DISABLED : {FALSE}]

TrackInit == InitWith(TrackConfig)

TrackNext ==
  \/ Connect("s1")
  \/ usedCodes = {} /\ CreateRoom("s1", "fpA")
  \/ SetPlaylist("s1", [playlist |-> <<EntryB, EntryC>>, mainVideoIndex |-> 0,
                        startTime |-> 0])
  \/ \E index \in {0, 1} : PlaylistJump("s1", index)
  \/ \E data \in TrackChangeInputs : TrackChange("s1", data)
  \/ AdvanceClock

TrackSpec == TrackInit /\ [][TrackNext]_vars

\* The registry: two connections that create rooms with either fingerprint,
\* join either room, leave and delete.
RegistrySockets == {"s1", "s2"}

RegistryInit == InitWith(RoomsConfig)

RegistryNext ==
  \/ \E s \in RegistrySockets : Connect(s)
  \/ \E s \in RegistrySockets, fp \in FingerprintInputs : CreateRoom(s, fp)
  \/ \E s \in RegistrySockets, code \in Codes, fp \in Fingerprints : JoinRoom(s, code, fp)
  \/ \E s \in RegistrySockets : LeaveRoom(s)
  \/ \E s \in RegistrySockets, code \in Codes, fp \in Fingerprints :
       DeleteRoom(s, code, fp)

RegistrySpec == RegistryInit /\ [][RegistryNext]_vars

\* Two rooms side by side: two connections create, join, leave and delete
\* rooms, disconnect, and send control and drift messages.
IsolationSockets == {"s1", "s2"}

IsolationInit == InitWith(RoomsConfig)

IsolationNext ==
  \/ \E s \in IsolationSockets : Connect(s)
  \/ \E s \in IsolationSockets : Disconnect(s)
  \/ \E s \in IsolationSockets : CreateRoom(s, "fpA")
  \/ \E s \in IsolationSockets, code \in Codes : JoinRoom(s, code, "fpB")
  \/ \E s \in IsolationSockets : LeaveRoom(s)
  \/ \E s \in IsolationSockets, code \in Codes : DeleteRoom(s, code, "fpA")
  \/ \E s \in IsolationSockets : Control(s, [action |-> "playpause", state |-> FALSE])
  \/ \E s \in IsolationSockets :
       BslSetDrift(s, [clientFingerprint |-> "fpB", playlistIndex |-> 0,
                       driftSeconds |-> 30])

IsolationSpec == IsolationInit /\ [][IsolationNext]_vars

\* The rate limiter: s1 connects from a remote address, s2 from localhost;
\* both send leave-room, s1 also creates a room; the address waits.
RateInit == InitState(RoomsConfig, {"s1"}, {EmptyMemory})

RateNext ==
  \/ \E s \in {"s1", "s2"} : Connect(s)
  \/ usedCodes = {} /\ CreateRoom("s1", "fpA")
  \/ \E s \in {"s1", "s2"} : LeaveRoom(s)
  \/ Wait

RateSpec == RateInit /\ [][RateNext]_vars

\* The matcher: the admin s1 sets a playlist of a Matroska file that is on
\* disk and a FLAC file, the member s2 reports one or two files, and the admin
\* records a manual match for s2.
MatchConfig ==
  [SERVER_MODE : BOOLEAN, ADMIN_FINGERPRINT_LOCK : {FALSE}, JOIN_MODE : {"sync"},
   VIDEO_AUTOPLAY : {TRUE}, CLIENT_CONTROLS_DISABLED : {FALSE},
   CLIENT_SYNC_DISABLED : {FALSE}, BSL_ADVANCED_MATCH : BOOLEAN,
   BSL_ADVANCED_MATCH_THRESHOLD : {1, 3}]

MatchInit == InitWith(MatchConfig)

EntryF == [filename |-> "song.flac", isExternal |-> TRUE,
           selectedAudioTrack |-> undefined, selectedSubtitleTrack |-> undefined]

MatchFiles ==
  {[name |-> "B.MKV", size |-> 900001000, type |-> "video/x-matroska"],
   [name |-> "B.MKV", size |-> 901600000, type |-> ""],
   [name |-> "x.avi", size |-> undefined, type |-> "video/x-msvideo"],
   [name |-> "x.avi", size |-> 900001000, type |-> ""],
   [name |-> "holiday.jpg", size |-> undefined, type |-> "image/jpeg"],
   [name |-> "holiday.jpg", size |-> undefined, type |-> ""]}

MatchReports == {<<f>> : f \in MatchFiles} \cup {<<f, g>> : f, g \in MatchFiles}

MatchNext ==
  \/ \E s \in {"s1", "s2"} : Connect(s)
  \/ usedCodes = {} /\ CreateRoom("s1", "fpA")
  \/ JoinRoom("s2", "ROOMAA", "fpB")
  \/ SetPlaylist("s1", [playlist |-> <<EntryB, EntryF>>, mainVideoIndex |-> 0,
                        startTime |-> 0])
  \/ \E files \in MatchReports :
       BslFolderSelected("s2", [clientId |-> "fpB", files |-> files])
  \/ BslManualMatch("s1", [clientSocketId |-> "s2", clientFileName |-> "x.avi",
                           playlistIndex |-> 0])

MatchSpec == MatchInit /\ [][MatchNext]_vars

\* Repeated reports: the playlist is set before any report, the persistent
\* store may hold a manual match of an earlier run, and between the reports of
\* a member the other member reports, the admin polls and sets a drift, a
\* track is changed and time passes.
IdemConfig == {c \in MatchConfig : c.BSL_ADVANCED_MATCH_THRESHOLD = 1}

IdemFiles == {f \in MatchFiles : f.type # ""}

IdemInit ==
  InitState(IdemConfig, {},
            {EmptyMemory, setBslMatch(EmptyMemory, "fpB", "x.avi", "b.mkv")})

IdemNext ==
  \/ \E s \in {"s1", "s2"} : Connect(s)
  \/ usedCodes = {} /\ CreateRoom("s1", "fpA")
  \/ JoinRoom("s2", "ROOMAA", "fpB")
  \/ /\ clientBslStatus = EmptyMap
     /\ \A k \in DOMAIN rooms : rooms[k].clientBslStatus = EmptyMap
     /\ SetPlaylist("s1", [playlist |-> <<EntryB, EntryF>>, mainVideoIndex |-> 0,
                           startTime |-> 0])
  \/ \E f \in IdemFiles, id \in {undefinedStr, "fpB"} :
       BslFolderSelected("s2", [clientId |-> id, files |-> <<f>>])
  \/ BslFolderSelected("s1", [clientId |-> "fpA", files |-> <<File("B.MKV")>>])
  \/ BslFolderSelected("s2", [clientId |-> "fpB",
                              files |-> <<File("x.avi"), File("B.MKV")>>])
  \/ BslCheckRequest("s1")
  \/ BslSetDrift("s1", [clientFingerprint |-> "fpB", playlistIndex |-> 0,
                         driftSeconds |-> 30])
  \/ TrackChange("s1", [videoIndex |-> 0, type |-> "audio", trackIndex |-> 2])
  \/ AdvanceClock

IdemSpec == IdemInit /\ [][IdemNext]_vars

\* ------------------------------------------------------- filename safety
\* The characters of the filenames the clients of this section send.
LongName == "aaa...(256)"

Chars(filename) ==
  CASE filename = "" -> <<>>
    [] filename = "a.mp4" -> <<"a", ".", "m", "p", "4">>
    [] filename = "b.mkv" -> <<"b", ".", "m", "k", "v">>
    [] filename = "../b.mkv" -> <<".", ".", "/", "b", ".", "m", "k", "v">>
    [] filename = "a;b.mkv" -> <<"a", ";", "b", ".", "m", "k", "v">>
    [] filename = "a b(1).mkv" -> <<"a", " ", "b", "(", "1", ")", ".", "m", "k", "v">>
    [] filename = "a*.mkv" -> <<"a", "*", ".", "m", "k", "v">>
    [] filename = LongName -> [i \in 1..256 |-> "a"]

ProbeNames == {"", "a.mp4", "b.mkv", "../b.mkv", "a;b.mkv", "a b(1).mkv", "a*.mkv", LongName}

NameOf(chars) == CHOOSE n \in ProbeNames : Chars(n) = chars

\* The backslash and the backtick, named because a string literal cannot hold
\* them.
Backslash == "backslash"

Backtick == "backtick"

\* String.prototype.includes for a two-character needle.
Includes2(c, x, y) == \E i \in 1..(Len(c) - 1) : c[i] = x /\ c[i + 1] = y

Includes1(c, x) == \E i \in DOMAIN c : c[i] = x

shellMetachars == {";", "&", "|", "$", Backtick, "<", ">", "\n", "\r"}

\* [\w\s\-.()\[\]]
safePattern ==
  {"a", "b", "m", "p", "k", "v", "1", "4", "_"} \cup {" ", "\t"}
    \cup {"-", ".", "(", ")", "[", "]"}

\* path.basename: what follows the last separator.
basename(c) ==
  LET seps == {i \in DOMAIN c : c[i] = "/"}
      from == IF seps = {} THEN 1
              ELSE 1 + CHOOSE i \in seps : \A j \in seps : j <= i
  IN SubSeq(c, from, Len(c))

validateFilename(filename) ==
  LET c == Chars(filename) IN
  IF Len(c) = 0 THEN [valid |-> FALSE, sanitized |-> undefinedStr]
  ELSE IF Len(c) > 255 THEN [valid |-> FALSE, sanitized |-> undefinedStr]
  ELSE IF Includes2(c, ".", ".") \/ Includes1(c, "/") \/ Includes1(c, Backslash)
  THEN [valid |-> FALSE, sanitized |-> undefinedStr]
  ELSE IF \E i \in DOMAIN c : c[i] \in shellMetachars
  THEN [valid |-> FALSE, sanitized |-> undefinedStr]
  ELSE IF \E i \in DOMAIN c : c[i] \notin safePattern
  THEN [valid |-> FALSE, sanitized |-> undefinedStr]
  ELSE [valid |-> TRUE, sanitized |-> NameOf(basename(c))]

\* The filenames a suspended set-playlist has handed to getTracksForFile.
ProbedBy(data) ==
  {data.playlist[i].filename : i \in {j \in DOMAIN data.playlist : ~data.playlist[j].isExternal}}

\* GET /api/tracks/:filename; `probe` is the argument of getTracksForFile.
ApiTracks(filename) ==
  /\ ~crashed
  /\ LET validation == validateFilename(filename) IN
       last' = [sock |-> null, ev |-> "GET /api/tracks",
                data |-> [filename |-> filename,
                          status |-> IF validation.valid THEN 200 ELSE 400,
                          probe |-> validation.sanitized]]
  /\ sent' = <<>>
  /\ UNCHANGED <<envVars, connVars, rooms, usedCodes, roomAdmins, legacyVars,
                 legacyAdminVars, memory, asyncVars, limiterVars>>

ProbeEntry(filename, isExternal) ==
  [filename |-> filename, isExternal |-> isExternal,
   selectedAudioTrack |-> undefined, selectedSubtitleTrack |-> undefined]

ProbePlaylists ==
  {<<ProbeEntry(f, x)>> : f \in ProbeNames \ {""}, x \in BOOLEAN}
    \cup {<<ProbeEntry("a.mp4", FALSE), ProbeEntry(f, FALSE)>> : f \in {"b.mkv", "a;b.mkv"}}

ProbeInit == InitWith(RoomsConfig)

ProbeNext ==
  \/ \E s \in {"s1", "s2"} : Connect(s)
  \/ usedCodes = {} /\ CreateRoom("s1", "fpA")
  \/ JoinRoom("s2", "ROOMAA", "fpB")
  \/ \E s \in {"s1", "s2"}, p \in ProbePlaylists :
       SetPlaylist(s, [playlist |-> p, mainVideoIndex |-> 0, startTime |-> 0])
  \/ \E i \in 1..MaxPending : SetPlaylistResume(i)
  \/ \E f \in ProbeNames : ApiTracks(f)

ProbeSpec == ProbeInit /\ [][ProbeNext]_vars

\* Input validation: the admin and a viewer send control, playlist-jump,
\* track-change and bsl-set-drift with payloads inside and outside the domains
\* the handlers check, over a playlist of two entries.
ValidationSockets == {"s1", "s2"}

ValidationInit == InitWith(ReorderConfig)

ValidationControls ==
  [action : {"seek"}, time : {42, -1, NaN}]
    \cup [action : {"selectTrack"}, type : {"audio"}, trackIndex : {1, -2}]
    \cup [action : {"none"}, isPlaying : {TRUE}, currentTime : {undefined, 0, -1}]

ValidationTrackChanges ==
  [videoIndex : {-1, 0}, type : {"audio", "video"}, trackIndex : {2, -2}]

ValidationDrifts ==
  [clientFingerprint : {"fpB", undefinedStr}, playlistIndex : {-1, 0},
   driftSeconds : {undefined, 30, 75}]

ValidationNext ==
  \/ \E s \in ValidationSockets : Connect(s)
  \/ usedCodes = {} /\ CreateRoom("s1", "fpA")
  \/ JoinRoom("s2", "ROOMAA", "fpB")
  \/ ~config.SERVER_MODE /\ BslAdminRegister("s1", "fpA")
  \/ SetPlaylist("s1", [playlist |-> <<EntryB, EntryC>>, mainVideoIndex |-> 0,
                        startTime |-> 0])
  \/ \E s \in ValidationSockets, data \in ValidationControls : Control(s, data)
  \/ \E s \in ValidationSockets, index \in JumpInputs : PlaylistJump(s, index)
  \/ \E s \in ValidationSockets, data \in ValidationTrackChanges : TrackChange(s, data)
  \/ \E s \in ValidationSockets, data \in ValidationDrifts : BslSetDrift(s, data)

ValidationSpec == ValidationInit /\ [][ValidationNext]_vars

\* The position: the admin and a viewer skip in both directions with and
\* without a seconds value, seek, pause and push raw state with and without a
\* position, while the ticker runs.
PositionControls ==
  [action : {"skip"}, direction : {"forward", "backward"}, seconds : {undefined, 30}]
    \cup [action : {"seek"}, time : {42}]
    \cup [action : {"playpause"}, state : BOOLEAN]
    \cup [action : {"none"}, isPlaying : BOOLEAN, currentTime : {undefined, 0}]

PositionInit == InitWith(ReorderConfig)

PositionNext ==
  \/ \E s \in {"s1", "s2"} : Connect(s)
  \/ usedCodes = {} /\ CreateRoom("s1", "fpA")
  \/ JoinRoom("s2", "ROOMAA", "fpB")
  \/ \E s \in {"s1", "s2"}, data \in PositionControls : Control(s, data)
  \/ Tick
  \/ AdvanceClock

PositionSpec == PositionInit /\ [][PositionNext]_vars

\* Malformed payloads: the admin and a viewer send create-room and join-room
\* without an argument, set-playlist without a playlist or with an entry that
\* has no filename, and bsl-folder-selected without a list of files, between
\* well-formed messages.
NoFilename ==
  [isExternal |-> TRUE, selectedAudioTrack |-> undefined,
   selectedSubtitleTrack |-> undefined]

MalformedPlaylists ==
  {[mainVideoIndex |-> 0, startTime |-> 0],
   [playlist |-> <<NoFilename>>, mainVideoIndex |-> 0, startTime |-> 0],
   [playlist |-> <<EntryA, NoFilename>>, mainVideoIndex |-> 0, startTime |-> 0]}

MalformedSockets == {"s1", "s2"}

MalformedInit == InitWith(ReorderConfig)

MalformedNext ==
  \/ \E s \in MalformedSockets : Connect(s)
  \/ usedCodes = {} /\ CreateRoom("s1", "fpA")
  \/ JoinRoom("s2", "ROOMAA", "fpB")
  \/ SetPlaylist("s1", [playlist |-> <<EntryB>>, mainVideoIndex |-> 0, startTime |-> 0])
  \/ BslFolderSelected("s2", [clientId |-> "fpB", files |-> <<File("b.mkv")>>])
  \/ \E s \in MalformedSockets :
       config.SERVER_MODE /\ Recv(s, "create-room", NoData, H_create_room)
  \/ \E s \in MalformedSockets :
       config.SERVER_MODE /\ Recv(s, "join-room", NoData, H_join_room)
  \/ \E s \in MalformedSockets, data \in MalformedPlaylists : SetPlaylist(s, data)
  \/ SetPlaylistResume(1)
  \/ \E s \in MalformedSockets : BslFolderSelected(s, [clientId |-> "fpB"])

MalformedSpec == MalformedInit /\ [][MalformedNext]_vars

\* The clock under the scheduling the program itself provides: the interval
\* of the ticker and the 500 ms timer fire, and time passes.  The return of a
\* probe is the external process's doing: execFile is called without a
\* timeout, so nothing in the program makes a suspended set-playlist resume.
WaitSpec ==
  /\ ClockInit
  /\ [][ClockNext]_vars
  /\ WF_vars(Tick)
  /\ WF_vars(PauseTimer)
  /\ WF_vars(AdvanceClock)

\* Two overlapping set-playlist commands: the admin sends FirstList, whose
\* first entry is probed, to a room without a playlist, and while that handler
\* is suspended SecondList, with or without an entry to probe.  The probes
\* return in either order.
FirstList ==
  [playlist |-> <<EntryA, EntryB>>, mainVideoIndex |-> 1, startTime |-> 3]

SecondLists ==
  {[playlist |-> <<EntryB>>, mainVideoIndex |-> 0, startTime |-> 0],
   [playlist |-> <<EntryA>>, mainVideoIndex |-> 0, startTime |-> 0]}

OverlapInit == InitWith(ReorderConfig)

OverlapNext ==
  \/ \E s \in {"s1", "s2"} : Connect(s)
  \/ usedCodes = {} /\ CreateRoom("s1", "fpA")
  \/ JoinRoom("s2", "ROOMAA", "fpB")
  \/ /\ pending = <<>>
     /\ SenderRoom("s1") # undefinedStr
     /\ Target(SenderRoom("s1")).playlist.videos = <<>>
     /\ SetPlaylist("s1", FirstList)
  \/ /\ pending # <<>>
     /\ Len(pending) < MaxOverlap
     /\ \E data \in SecondLists : Recv("s1", "set-playlist", data, H_set_playlist)
  \/ \E i \in 1..MaxOverlap : SetPlaylistResume(i)
  \/ AdvanceClock

OverlapSpec == OverlapInit /\ [][OverlapNext]_vars

\* Per-entry data: the admin stores a drift for the viewer fpB, the viewer
\* reports a file that matches an entry, and the admin then swaps the two
\* entries of the playlist or replaces the playlist by a shorter one.
AttachInit == InitWith(ReorderConfig)

AttachNext ==
  \/ \E s \in {"s1", "s2"} : Connect(s)
  \/ usedCodes = {} /\ CreateRoom("s1", "fpA")
  \/ JoinRoom("s2", "ROOMAA", "fpB")
  \/ ~config.SERVER_MODE /\ BslAdminRegister("s1", "fpA")
  \/ \E p \in {<<EntryB, EntryC>>, <<EntryC>>} :
       SetPlaylist("s1", [playlist |-> p, mainVideoIndex |-> 0, startTime |-> 0])
  \/ PlaylistReorder("s1", [fromIndex |-> 0, toIndex |-> 1])
  \/ \E index \in {0, 1} :
       BslSetDrift("s1", [clientFingerprint |-> "fpB", playlistIndex |-> index,
                          driftSeconds |-> 30])
  \/ \E name \in {"b.mkv", "c.mp4"} :
       BslFolderSelected("s2", [clientId |-> "fpB", files |-> <<File(name)>>])

AttachSpec == AttachInit /\ [][AttachNext]_vars

\* ------------------------------------------------------------------ claims
\* The acknowledgement a step sent back to the sender.
Acks == {sent[i].data : i \in {j \in DOMAIN sent : sent[j].ev = "ack"}}

\* C2: in every reachable state of every room the admin connection id is null
\* or the id of a connection that is connected and is a member of the room (so
\* the seat is null once the admin has left or disconnected).
C2_AdminSeatIsAMember ==
  \A k \in DOMAIN rooms :
    \/ rooms[k].adminSocketId = null
    \/ /\ sockets[rooms[k].adminSocketId] = "open"
       /\ rooms[k].adminSocketId \in DOMAIN rooms[k].clients

\* C3: a join-room for an existing room by a connection that does not hold the
\* seat makes it the room's admin connection exactly when its fingerprint is
\* the room's persisted admin fingerprint: then the ack reports isAdmin true
\* and the gate lets its admin commands through; with another fingerprint the
\* ack reports isAdmin false and the gate refuses it.
C3_JoinOutcome(s, code, fp) ==
  LET k == getRoom(code) IN
  IF fp = getAdminFingerprint(k)
  THEN /\ rooms'[k].adminSocketId = s
       /\ \E a \in Acks' : a.success /\ a.isAdmin
       /\ isSocketAdmin(s)'
  ELSE /\ rooms'[k].adminSocketId # s
       /\ \E a \in Acks' : a.success /\ ~a.isAdmin
       /\ ~isSocketAdmin(s)'

C3_FingerprintStability ==
  [][\A s \in Sockets, code \in CodeInputs, fp \in FingerprintInputs :
       (/\ last'.ev = "join-room"
        /\ last'.sock = s /\ last'.data.roomCode = code /\ last'.data.fingerprint = fp
        /\ JoinRoom(s, code, fp)
        /\ HasRoom(code)
        /\ rooms[getRoom(code)].adminSocketId # s
        /\ ~crashed')
       => C3_JoinOutcome(s, code, fp)]_vars

\* The creator s1 is gone; s2 joined with the admin fingerprint, holds the
\* seat, was told so, and passes the gate.
C3_Witness ==
  /\ sockets["s1"] = "closed"
  /\ last.ev = "join-room" /\ last.sock = "s2" /\ last.data.fingerprint = "fpA"
  /\ \E k \in DOMAIN rooms : rooms[k].adminSocketId = "s2"
  /\ \E a \in Acks : a.success /\ a.isAdmin
  /\ isSocketAdmin("s2")

\* C4: with the lock on, a bound fingerprint never changes, and a
\* bsl-admin-register that carries no fingerprint, or one that differs from
\* the bound one, is answered admin-auth-result {success: false}, adds nobody
\* to the verified-admin set and leaves the admin connection id alone.
C4_Refusal(s, fp) ==
  /\ sent' = <<Msg({s}, "admin-auth-result", [success |-> FALSE])>>
  /\ verifiedAdminSockets' = verifiedAdminSockets
  /\ adminSocketId' = adminSocketId

C4_FingerprintLock ==
  [][/\ registeredAdminFingerprint # null
          => registeredAdminFingerprint' = registeredAdminFingerprint
     /\ \A s \in Sockets, fp \in FingerprintInputs :
          (/\ config.ADMIN_FINGERPRINT_LOCK
           /\ last'.ev = "bsl-admin-register"
           /\ last'.sock = s /\ last'.data.fingerprint = fp
           /\ \/ fp = undefinedStr
              \/ (registeredAdminFingerprint # null /\ fp # registeredAdminFingerprint))
          => C4_Refusal(s, fp)]_vars

\* X registered with the bound fingerprint and is the admin; Y tried another
\* fingerprint and was refused.
C4_Witness ==
  /\ registeredAdminFingerprint = "fpA"
  /\ last.ev = "bsl-admin-register" /\ last.data.fingerprint = "fpB"
  /\ adminSocketId \notin {null, last.sock}
  /\ verifiedAdminSockets = {adminSocketId}
  /\ last.sock \in kickTimers
  /\ sent = <<Msg({last.sock}, "admin-auth-result", [success |-> FALSE])>>

\* C1 (as amended): a gated command from a connection the gate does not
\* recognise as admin (multi-room: it is not the admin connection id of the
\* room it is mapped to; single-room with the lock on: it is not a verified
\* admin) changes no playlist, playback state, BSL status, drift, member set
\* or persistent store, and the sender is sent admin-error.
C1_GatedCommands ==
  {"set-playlist", "playlist-reorder", "playlist-jump", "track-change",
   "skip-to-next-video", "bsl-check-request", "bsl-get-status", "bsl-manual-match",
   "bsl-set-drift", "set-client-name", "get-client-list", "set-client-display-name",
   "delete-room"}

C1_NothingChanged ==
  UNCHANGED <<rooms, PLAYLIST, videoState, clientBslStatus, clientDriftValues,
              sockets, ioRooms, socketRoomMap, connectedClients, memory, roomAdmins,
              registeredAdminFingerprint>>

C1_Refused ==
  /\ C1_NothingChanged
  /\ sent' = <<Msg({last'.sock}, "admin-error", last'.ev)>>

C1_AdminExclusivity ==
  [][(last'.ev \in C1_GatedCommands /\ ~isSocketAdmin(last'.sock)) => C1_Refused]_vars

\* A viewer of a room with a playlist asked to drop it and was refused.
C1_Witness ==
  /\ config.SERVER_MODE
  /\ last.ev = "set-playlist" /\ last.sock = "s2"
  /\ sent = <<Msg({"s2"}, "admin-error", "set-playlist")>>
  /\ "ROOMAA" \in DOMAIN rooms
  /\ rooms["ROOMAA"].adminSocketId = "s1"
  /\ "s2" \in DOMAIN rooms["ROOMAA"].clients
  /\ Len(rooms["ROOMAA"].playlist.videos) = 1

\* C1 (as claimed): the same of every connection that is not the current
\* admin connection of its room.
C1_IsCurrentAdmin(s) ==
  IF config.SERVER_MODE
  THEN /\ socketRoomMap[s] # undefinedStr /\ HasRoom(socketRoomMap[s])
       /\ rooms[getRoom(socketRoomMap[s])].adminSocketId = s
  ELSE adminSocketId = s

C1_AsClaimed ==
  [][(last'.ev \in C1_GatedCommands /\ ~C1_IsCurrentAdmin(last'.sock)) => C1_Refused]_vars

\* The sync events of the last step.
Syncs == {i \in DOMAIN sent : sent[i].ev = "sync"}

\* C7 (as amended): in single-room mode with join_mode = reset every new
\* connection sets currentTime to 0 and one sync with currentTime = 0 goes to
\* every connected socket, the joiner included.
C7_ResetJoinSingleRoom ==
  (~config.SERVER_MODE /\ config.JOIN_MODE = "reset" /\ last.ev = "connection")
    => /\ videoState.currentTime = 0
       /\ Cardinality(Syncs) = 1
       /\ \A i \in Syncs : /\ sent[i].to = OpenSockets
                           /\ last.sock \in sent[i].to
                           /\ sent[i].data = videoState
                           /\ sent[i].data.currentTime = 0

\* A third viewer connects one second into the session and everybody, the two
\* that were there and the new one, is sent the rewound state.
C7_Witness ==
  /\ ~config.SERVER_MODE /\ config.JOIN_MODE = "reset"
  /\ last.ev = "connection"
  /\ OpenSockets = Sockets
  /\ now >= 1 /\ videoState.lastUpdate = now /\ videoState.isPlaying
  /\ \E i \in Syncs : sent[i].to = Sockets /\ sent[i].data.currentTime = 0

\* C7 (as claimed): the same of every join, by connecting in single-room mode
\* and by join-room in multi-room mode.
C7_JoinedRoom ==
  IF config.SERVER_MODE THEN getRoom(last.data.roomCode) ELSE Legacy

C7_IsJoin ==
  \/ ~config.SERVER_MODE /\ last.ev = "connection"
  \/ /\ config.SERVER_MODE /\ last.ev = "join-room" /\ ~crashed
     /\ \E a \in Acks : a.success

C7_ResetJoinAsClaimed ==
  (config.JOIN_MODE = "reset" /\ C7_IsJoin)
    => /\ Target(C7_JoinedRoom).videoState.currentTime = 0
       /\ \E i \in Syncs : /\ sent[i].to = RoomCast(C7_JoinedRoom)
                           /\ sent[i].data.currentTime = 0

\* C8: with join_mode = sync a join sends one sync, to the joiner only, that
\* carries the room's playback state as the join leaves it, and the join
\* changes neither isPlaying, currentTime nor lastUpdate.
C8_SameClock(before, after) ==
  /\ after.isPlaying = before.isPlaying
  /\ after.currentTime = before.currentTime
  /\ after.lastUpdate = before.lastUpdate

C8_SnapshotToJoiner(s, vs) ==
  /\ Cardinality(Syncs') = 1
  /\ \A i \in Syncs' : sent'[i].to = {s} /\ sent'[i].data = vs

C8_SyncJoin ==
  [][config.JOIN_MODE = "sync" =>
       /\ (~config.SERVER_MODE /\ last'.ev = "connection")
            => /\ C8_SnapshotToJoiner(last'.sock, videoState')
               /\ C8_SameClock(videoState, videoState')
       /\ (config.SERVER_MODE /\ last'.ev = "join-room" /\ ~crashed'
             /\ HasRoom(last'.data.roomCode))
            => /\ C8_SnapshotToJoiner(last'.sock,
                                      rooms'[getRoom(last'.data.roomCode)].videoState)
               /\ C8_SameClock(rooms[getRoom(last'.data.roomCode)].videoState,
                               rooms'[getRoom(last'.data.roomCode)].videoState)]_vars

\* Playing, a seek to 42 a second in, then viewer B connects: B alone is sent
\* isPlaying = true and a position of at least 42.
C8_Witness ==
  /\ ~config.SERVER_MODE /\ config.JOIN_MODE = "sync"
  /\ last.ev = "connection"
  /\ Cardinality(OpenSockets) >= 2
  /\ videoState.lastUpdate >= 1
  /\ \E i \in Syncs : /\ sent[i].to = {last.sock}
                      /\ sent[i].data.isPlaying
                      /\ sent[i].data.currentTime >= 42
                      /\ sent[i].data = videoState

\* The rooms that have a playback state.
PlaybackKeys == IF config.SERVER_MODE THEN DOMAIN rooms ELSE {Legacy}

\* JavaScript >= : false when an operand is not a number.
C5_AtLeast(a, b) ==
  a \notin {undefined, NaN} /\ b \notin {undefined, NaN} /\ a >= b

C5_Projected(vs, t) == Plus(vs.currentTime, t - vs.lastUpdate)

\* C5: every step leaves every room with lastUpdate not later than the wall
\* time, with a projected position currentTime + (now - lastUpdate) that is at
\* least currentTime while it plays, and, while it is paused, with lastUpdate
\* at the moment isPlaying went from true to false: the time of this step when
\* this step paused it, and unchanged when it was paused already.
C5_ClockConsistency ==
  [][\A k \in PlaybackKeys' :
       LET after == Target(k)'.videoState IN
       /\ after.lastUpdate <= now'
       /\ after.isPlaying => C5_AtLeast(C5_Projected(after, now'), after.currentTime)
       /\ (~after.isPlaying /\ k \in PlaybackKeys) =>
            after.lastUpdate = IF Target(k).videoState.isPlaying THEN now'
                               ELSE Target(k).videoState.lastUpdate]_vars

\* C6: a step of a command that mutates playback state (a control, a raw push,
\* set-playlist, playlist-jump, playlist-next, skip-to-next-video, track-change)
\* and changes the state of a room or emits a sync at all, emits exactly one
\* sync, to the members of a room, and its payload is the playback state that
\* room has when the step is complete.
C6_Mutations ==
  {"control", "set-playlist", "set-playlist-resume", "playlist-jump", "playlist-next",
   "skip-to-next-video", "track-change"}

C6_Changed(k) ==
  k \in PlaybackKeys /\ Target(k)'.videoState # Target(k).videoState

C6_BroadcastAtomicity ==
  [][(/\ last'.ev \in C6_Mutations
      /\ ~crashed'
      /\ Syncs' # {} \/ \E k \in PlaybackKeys' : C6_Changed(k))
       => /\ Cardinality(Syncs') = 1
          /\ \A i \in Syncs' :
               \E k \in PlaybackKeys' :
                 /\ sent'[i].to = RoomCast(k)
                 /\ sent'[i].data = Target(k)'.videoState]_vars

\* C9: after an accepted playlist-jump, playlist-next, skip-to-next-video or
\* playlist-reorder, from whoever and with whatever payload, the sender's room
\* has 0 <= currentIndex < len(videos), or currentIndex = -1 and no videos.
C9_Commands ==
  {"playlist-jump", "playlist-next", "skip-to-next-video", "playlist-reorder"}

C9_IndexValidity ==
  (last.ev \in C9_Commands /\ sent # <<>> /\ ~crashed)
    => LET playlist == Target(SenderRoom(last.sock)).playlist IN
       \/ IndexOk(playlist.currentIndex, playlist)
       \/ playlist.currentIndex = -1 /\ Len(playlist.videos) = 0

\* C10: in every state of every room an empty playlist has currentIndex = -1
\* (whatever set-playlist installed).
C10_EmptyMeansUnset ==
  \A k \in PlaybackKeys :
    Len(Target(k).playlist.videos) = 0 => Target(k).playlist.currentIndex = -1

\* C11: in every state every value of every drift table (of every room, per
\* fingerprint and playlist index) lies between -60 and 60.
C11_BoundedDrift ==
  \A k \in PlaybackKeys :
    LET table == Target(k).clientDriftValues IN
    \A fp \in DOMAIN table : \A idx \in DOMAIN table[fp] :
      -60 <= table[fp][idx] /\ table[fp][idx] <= 60

\* The admin has set the drift of fpB to both ends of the range, entry 0 to 60
\* and entry 1 to -60, the last one just now.
C11_Witness ==
  /\ last.ev = "bsl-set-drift"
  /\ \E k \in PlaybackKeys :
       LET table == Target(k).clientDriftValues IN
       /\ "fpB" \in DOMAIN table
       /\ DOMAIN table["fpB"] = {0, 1}
       /\ table["fpB"][0] = 60 /\ table["fpB"][1] = -60

\* C12: after a bsl-set-drift from the admin for an existing fingerprint and
\* entry whose driftSeconds is a number outside [-60, 60], the stored drift is
\* the nearest bound and the step sent bsl-drift-update with that value to the
\* connections of that fingerprint (75 on entry 0: 60, and {0: 60} is sent).
C12_Nearest(d) == IF d > 60 THEN 60 ELSE -60

C12_ClampedAndPushed ==
  (/\ last.ev = "bsl-set-drift"
   /\ SenderRoom(last.sock) # undefinedStr
   /\ HandlerAdmin(last.sock, SenderRoom(last.sock))
   /\ last.data.clientFingerprint # undefinedStr
   /\ last.data.playlistIndex >= 0
   /\ last.data.driftSeconds # undefined
   /\ last.data.driftSeconds < -60 \/ last.data.driftSeconds > 60)
    => LET table == Target(SenderRoom(last.sock)).clientDriftValues
           fp == last.data.clientFingerprint
           idx == last.data.playlistIndex
       IN /\ fp \in DOMAIN table
          /\ idx \in DOMAIN table[fp]
          /\ table[fp][idx] = C12_Nearest(last.data.driftSeconds)
          /\ \E i \in DOMAIN sent :
               /\ sent[i].ev = "bsl-drift-update"
               /\ sent[i].to = SocketsOf(SenderRoom(last.sock), fp)
               /\ sent[i].data = table[fp]

\* The sender is the admin of room k, as the control handler decides it.
C13_SenderIsAdmin(s, k) ==
  IF k = Legacy THEN s \in verifiedAdminSockets ELSE rooms[k].adminSocketId = s

\* C13: a control message without action (a raw sync push) is honoured only
\* if client_sync_disabled is off and client_controls_disabled is off or the
\* sender is the admin; otherwise, in both modes, the step leaves the room's
\* playback state as it was and emits no sync.
C13_RawPushHonouredOnlyIfAllowed ==
  [][\A s \in Sockets, k \in PlaybackKeys :
       (/\ last'.ev = "control"
        /\ last'.sock = s
        /\ last'.data.action = "none"
        /\ SenderRoom(s) = k
        /\ ~(/\ ~config.CLIENT_SYNC_DISABLED
             /\ ~config.CLIENT_CONTROLS_DISABLED \/ C13_SenderIsAdmin(s, k)))
         => /\ Target(k)'.videoState = Target(k).videoState
            /\ Syncs' = {}]_vars

\* C14: with client_controls_disabled on, a step that handles a message of
\* any type from a connection that is not the admin of its room (neither for
\* the control handler nor for the gate) changes neither the room's playback
\* state nor its currentIndex.
C14_ViewersChangeNothing ==
  [][\A s \in Sockets, k \in PlaybackKeys :
       (/\ config.CLIENT_CONTROLS_DISABLED
        /\ last'.sock = s
        /\ last'.ev # "connection"
        /\ SenderRoom(s) = k
        /\ ~C13_SenderIsAdmin(s, k)
        /\ ~isSocketAdmin(s))
         => /\ Target(k)'.videoState = Target(k).videoState
            /\ Target(k)'.playlist.currentIndex = Target(k).playlist.currentIndex]_vars

\* The step completes a set-playlist handler that worked on room k.
C15_Completes(k) ==
  /\ \E i \in DOMAIN sent' : sent'[i].ev = "playlist-set" /\ sent'[i].data.success
  /\ \/ last'.ev = "set-playlist" /\ \E s \in Sockets : last'.sock = s /\ SenderRoom(s) = k
     \/ last'.ev = "set-playlist-resume" /\ pending # <<>> /\ pending[1].key = k

\* C15: when an accepted set-playlist completes, the room's playlist is the
\* submitted sequence of entries, currentIndex = 0, currentTime = 0, isPlaying =
\* video_autoplay, and the audio and subtitle tracks of the playback state are
\* the first entry's selections (0 and -1 when unset).
C15_SetPlaylistInstalls ==
  [][\A k \in PlaybackKeys :
       C15_Completes(k) =>
         LET playlist == Target(k)'.playlist
             vs == Target(k)'.videoState
         IN /\ playlist.videos = last'.data.playlist
            /\ playlist.currentIndex = 0
            /\ vs.currentTime = 0
            /\ vs.isPlaying = config.VIDEO_AUTOPLAY
            /\ Len(playlist.videos) > 0 =>
                 /\ vs.audioTrack = Or(playlist.videos[1].selectedAudioTrack, 0)
                 /\ vs.subtitleTrack = Or(playlist.videos[1].selectedSubtitleTrack, -1)]_vars

\* The entry a position command aims at: its argument, or the entry after
\* the current one.
C16_TargetIndex(k) ==
  IF last'.ev = "skip-to-next-video" THEN SkipTarget(Target(k).playlist) ELSE last'.data

\* C16: a step that accepts playlist-jump, playlist-next or skip-to-next-video
\* aimed at an existing entry sets currentIndex to that entry, currentTime to
\* 0 and the audio and subtitle tracks of the playback state to that entry's
\* selections, and emits both a playlist-update and a sync to the room.
C16_PositionCommands ==
  [][\A s \in Sockets, k \in PlaybackKeys :
       (/\ last'.ev \in {"playlist-jump", "playlist-next", "skip-to-next-video"}
        /\ last'.sock = s
        /\ SenderRoom(s) = k
        /\ Syncs' # {}
        /\ ~crashed'
        /\ Len(Target(k).playlist.videos) > 0
        /\ IndexOk(C16_TargetIndex(k), Target(k).playlist))
         => LET playlist == Target(k)'.playlist
                vs == Target(k)'.videoState
                sel == EntrySelections(playlist.videos[C16_TargetIndex(k) + 1])
            IN /\ playlist.currentIndex = C16_TargetIndex(k)
               /\ vs.currentTime = 0
               /\ vs.audioTrack = sel.audioTrack
               /\ vs.subtitleTrack = sel.subtitleTrack
               /\ \E i \in DOMAIN sent' :
                    /\ sent'[i].ev = "playlist-update"
                    /\ sent'[i].to = RoomCast(k)
                    /\ sent'[i].data = playlist
               /\ \E i \in Syncs' : sent'[i].to = RoomCast(k) /\ sent'[i].data = vs]_vars

\* Index idx designates the same entry in playlist `after` as it did in
\* `before` (when it designated one).
C17_SameEntry(before, idxBefore, after, idxAfter) ==
  IndexOk(idxBefore, before) =>
    /\ IndexOk(idxAfter, after)
    /\ after.videos[idxAfter + 1] = before.videos[idxBefore + 1]

\* C17: a step that accepts playlist-reorder {fromIndex, toIndex} swaps the
\* entries at those two positions and leaves every other entry in place;
\* currentIndex and mainVideoIndex designate afterwards the entries they
\* designated before; and the same reorder applied once more gives back the
\* playlist, currentIndex and mainVideoIndex of before.
C17_ReorderSwaps ==
  [][\A s \in Sockets, k \in PlaybackKeys :
       (/\ last'.ev = "playlist-reorder"
        /\ last'.sock = s
        /\ SenderRoom(s) = k
        /\ \E i \in DOMAIN sent' : sent'[i].ev = "playlist-update")
         => LET before == Target(k).playlist
                after == Target(k)'.playlist
                from == last'.data.fromIndex
                to == last'.data.toIndex
            IN /\ IndexOk(from, before) /\ IndexOk(to, before)
               /\ Len(after.videos) = Len(before.videos)
               /\ \A i \in DOMAIN before.videos :
                    after.videos[i] = IF i = from + 1 THEN before.videos[to + 1]
                                      ELSE IF i = to + 1 THEN before.videos[from + 1]
                                      ELSE before.videos[i]
               /\ C17_SameEntry(before, before.currentIndex, after, after.currentIndex)
               /\ C17_SameEntry(before, before.mainVideoIndex, after, after.mainVideoIndex)
               /\ Reordered(after, last'.data).videos = before.videos
               /\ Reordered(after, last'.data).currentIndex = before.currentIndex
               /\ Reordered(after, last'.data).mainVideoIndex = before.mainVideoIndex]_vars

\* The track of a playback state that a track-change of the given type sets.
C18_Track(vs, type) == IF type = "audio" THEN vs.audioTrack ELSE vs.subtitleTrack

C18_WitnessCurrent ==
  /\ last.ev = "track-change"
  /\ \E i \in DOMAIN sent : sent[i].ev = "track-change"
  /\ \E k \in PlaybackKeys :
       /\ SenderRoom(last.sock) = k
       /\ last.data.videoIndex = Target(k).playlist.currentIndex
       /\ Syncs # {}

\* C19: a create-room step adds exactly one room to the registry, under a code
\* no room of the registry had; the sender holds its admin seat and is its only
\* member; its admin fingerprint is the one supplied, in the room and in the
\* persisted admin table; every room that existed, and its persisted entry, is
\* as it was.
C19_CreateRoom ==
  [][\A s \in Sockets :
       (last'.ev = "create-room" /\ last'.sock = s)
         => \E code \in DOMAIN rooms' \ DOMAIN rooms :
              /\ DOMAIN rooms' = DOMAIN rooms \cup {code}
              /\ rooms'[code].adminSocketId = s
              /\ DOMAIN rooms'[code].clients = {s}
              /\ rooms'[code].adminFingerprint = last'.data.fingerprint
              /\ code \in DOMAIN roomAdmins'
              /\ roomAdmins'[code] = last'.data.fingerprint
              /\ \A k \in DOMAIN rooms :
                   /\ rooms'[k] = rooms[k]
                   /\ k \in DOMAIN roomAdmins
                        => k \in DOMAIN roomAdmins' /\ roomAdmins'[k] = roomAdmins[k]]_vars

\* A second room was just created by a connection that is still a member of
\* the first one, under another fingerprint than that room's.
C19_Witness ==
  /\ last.ev = "create-room"
  /\ DOMAIN rooms = {"ROOMAA", "ROOMBB"}
  /\ rooms["ROOMBB"].adminSocketId = last.sock
  /\ last.sock \in DOMAIN rooms["ROOMAA"].clients
  /\ rooms["ROOMAA"].adminFingerprint # rooms["ROOMBB"].adminFingerprint

\* What C20 asks of the state after an acknowledged delete-room of `code`.
C20_Gone(code) ==
  /\ ~HasRoom(code)'
  /\ getRoom(code) \notin DOMAIN roomAdmins'
  /\ \A x \in Sockets :
       socketRoomMap'[x] = undefinedStr \/ getRoom(socketRoomMap'[x]) # getRoom(code)

\* C20: whenever a delete-room step acknowledges success for a room code, in
\* whatever letter case the code was written, getRoom of that code finds no
\* room afterwards, the persisted admin table has no entry for the room, and
\* no connection is mapped to it.
C20_DeleteRoom ==
  [][\A code \in CodeInputs :
       (/\ last'.ev = "delete-room"
        /\ last'.data.roomCode = code
        /\ \E a \in Acks' : a.success)
         => C20_Gone(code)]_vars

\* The same for codes written as the registry holds them.
C20_DeleteRoomUpperCase ==
  [][\A code \in Codes :
       (/\ last'.ev = "delete-room"
        /\ last'.data.roomCode = code
        /\ \E a \in Acks' : a.success)
         => C20_Gone(code)]_vars

\* C21: a delete-room step removes a room from the registry only when its
\* sender holds that room's admin seat; the admin of another room, or a
\* connection in no room, never removes it.
C21_DeleteOnlyByAdminSeat ==
  [][\A k \in Codes :
       (/\ last'.ev = "delete-room"
        /\ k \in DOMAIN rooms
        /\ k \notin DOMAIN rooms')
         => rooms[k].adminSocketId = last'.sock]_vars

\* The part of C21 about connections that are in no room.
C21_NeverFromOutside ==
  [][\A k \in Codes :
       (/\ last'.ev = "delete-room"
        /\ k \in DOMAIN rooms
        /\ k \notin DOMAIN rooms')
         => socketRoomMap[last'.sock] # undefinedStr]_vars

\* The rooms a step concerns: the room its sender is mapped to and, for a
\* join or a deletion, the room the payload names.
C22_Concerned(s, ev, data) ==
  {SenderRoom(s)} \cup
  (IF ev \in {"join-room", "delete-room"} THEN {getRoom(data.roomCode)} ELSE {})

\* C22: a step taken for a connection leaves every room it does not concern
\* as it was (playlist, playback state, members, admin seat, BSL status map,
\* drift map) and leaves every other connection that is a member of such a
\* room and mapped to it mapped to it.
C22_RoomIsolation ==
  [][\A s \in Sockets, ev \in {last'.ev}, data \in {last'.data} :
       last'.sock = s
         => \A b \in DOMAIN rooms \ C22_Concerned(s, ev, data) :
              /\ b \in DOMAIN rooms'
              /\ rooms'[b] = rooms[b]
              /\ \A x \in DOMAIN rooms[b].clients \ {s} :
                   socketRoomMap[x] = b => socketRoomMap'[x] = b]_vars

\* A step that handled a packet of socket s (the rate limiter saw it).
C23_Packet(s) ==
  /\ last'.sock = s
  /\ last'.ev \notin {"connection", "disconnect", "set-playlist-resume"}

\* The packet of the step was dropped by the rate limiter.
C23_Dropped(s) ==
  /\ sent' = <<Msg({s}, "rate-limit-error", rateLimiter'.expiresAt - now)>>
  /\ UNCHANGED <<config, now, crashed, connVars, rooms, usedCodes, roomAdmins,
                 legacyVars, legacyAdminVars, memory, asyncVars>>

C23_Dispatched == \A i \in DOMAIN sent' : sent'[i].ev # "rate-limit-error"

RECURSIVE C23_Sum(_, _)
C23_Sum(f, S) ==
  IF S = {} THEN 0 ELSE LET x == CHOOSE y \in S : TRUE IN f[x] + C23_Sum(f, S \ {x})

\* The events of the remote address dispatched in the last DURATION seconds.
C23_InWindow ==
  C23_Sum(dispatched, {t \in DOMAIN dispatched : t > now - DURATION})

\* C23 as claimed: at most 100 events of the remote address are dispatched
\* within any 10 s; an event that is not dispatched changes no state and is
\* answered by rate-limit-error; once the block has elapsed events are
\* dispatched again; events from localhost are never dropped.
C23_AsClaimed ==
  [][/\ C23_InWindow' <= POINTS
     /\ \A s \in Sockets :
          C23_Packet(s) =>
            /\ C23_Dispatched \/ C23_Dropped(s)
            /\ (s \in remote /\ ~RateLive) => C23_Dispatched
            /\ s \notin remote => C23_Dispatched]_vars

\* C23: an event of the remote address is dropped exactly when 100 events
\* have been counted in the limiter's running window (10 s from the first
\* event counted, or the 5 s block that the first event over the limit
\* starts); a dropped event changes no state and is answered by
\* rate-limit-error; an event that finds the window or block expired is
\* dispatched and opens a new window of 10 s; at most 100 events are
\* dispatched in one window; events from localhost are never dropped and
\* never counted.
C23_RateLimiting ==
  [][\A s \in Sockets :
       C23_Packet(s) =>
         IF s \in remote
         THEN /\ C23_Dispatched \/ C23_Dropped(s)
              /\ C23_Dispatched <=> ~(RateLive /\ rateLimiter.consumed >= POINTS)
              /\ C23_Dispatched => rateLimiter'.consumed <= POINTS
              /\ ~RateLive =>
                   rateLimiter' = [consumed |-> 1, expiresAt |-> now + DURATION]
              /\ (RateLive /\ rateLimiter.consumed = POINTS) =>
                   rateLimiter'.expiresAt = now + BLOCK_DURATION
              /\ (RateLive /\ rateLimiter.consumed # POINTS) =>
                   rateLimiter'.expiresAt = rateLimiter.expiresAt
         ELSE C23_Dispatched /\ rateLimiter' = rateLimiter]_vars

\* The remote address sent 100 events at once, the next one was dropped and
\* started the block, and the first event after the block was dispatched.
C23_Witness ==
  /\ last.sock \in remote
  /\ last.ev = "create-room"
  /\ rateLimiter = [consumed |-> 1, expiresAt |-> now + DURATION]
  /\ \E t \in DOMAIN dispatched : dispatched[t] = POINTS /\ now = t + BLOCK_DURATION

\* The criteria of C24, for a reported file and a playlist entry.
C24_MimeAgrees(file, video) ==
  /\ file.type # ""
  /\ mimeMap(ExtOf(video.filename)) # ""
  /\ \/ file.type = mimeMap(ExtOf(video.filename))
     \/ Family(file.type) = Family(mimeMap(ExtOf(video.filename)))

C24_Criteria(file, video) ==
  {c \in {"name", "extension", "size", "mime"} :
     CASE c = "name" -> toLowerCase(file.name) = toLowerCase(video.filename)
       [] c = "extension" -> ExtOf(file.name) = ExtOf(video.filename)
       [] c = "size" -> /\ file.size # undefined
                        /\ ServerSize(video.filename) # undefined
                        /\ Abs(file.size - ServerSize(video.filename)) <= SIZE_TOLERANCE
       [] c = "mime" -> C24_MimeAgrees(file, video)}

C24_IsMatch(file, video, clientId) ==
  \/ /\ clientId \in DOMAIN memory.bslMatches
     /\ toLowerCase(file.name) \in DOMAIN memory.bslMatches[clientId]
     /\ memory.bslMatches[clientId][toLowerCase(file.name)] = toLowerCase(video.filename)
  \/ /\ config.BSL_ADVANCED_MATCH
     /\ Cardinality(C24_Criteria(file, video)) >= config.BSL_ADVANCED_MATCH_THRESHOLD
  \/ /\ ~config.BSL_ADVANCED_MATCH
     /\ toLowerCase(file.name) = toLowerCase(video.filename)

\* C24: the reply to bsl-folder-selected lists a playlist entry as matched
\* exactly when some reported file and the entry are a match by (a) a
\* persistent manual match of the reporting fingerprint, (b) with advanced
\* matching on, at least threshold satisfied criteria among name, extension,
\* size within 1.5 MiB and MIME agreement, or (c) with advanced matching off,
\* equal names ignoring case; and the file listed for it is such a file.
C24_MatcherDecision ==
  [][\A s \in Sockets, k \in PlaybackKeys :
       (/\ last'.ev = "bsl-folder-selected"
        /\ last'.sock = s
        /\ SenderRoom(s) = k
        /\ \E i \in DOMAIN sent' : sent'[i].ev = "bsl-match-result")
         => LET files == last'.data.files
                videos == Target(k).playlist.videos
                matched == Target(k)'.clientBslStatus[s].matchedVideos
            IN \A idx \in 0..(Len(videos) - 1) :
                 LET hits == {i \in DOMAIN files :
                                C24_IsMatch(files[i], videos[idx + 1], last'.data.clientId)}
                 IN /\ idx \in DOMAIN matched <=> hits # {}
                    /\ idx \in DOMAIN matched
                         => \E i \in hits : matched[idx] = files[i].name]_vars

\* The persistent store holds a manual match of file name f to the entry at
\* idx of the playlist for fingerprint p.
C25_Recorded(p, f, playlist, idx) ==
  /\ p \in DOMAIN memory.bslMatches
  /\ toLowerCase(f) \in DOMAIN memory.bslMatches[p]
  /\ IndexOk(idx, playlist)
  /\ memory.bslMatches[p][toLowerCase(f)] = toLowerCase(playlist.videos[idx + 1].filename)

\* C25: once a manual match of client file f to playlist entry i is recorded
\* for fingerprint p, every bsl-folder-selected of a connection identifying
\* as p whose file list contains f yields matchedVideos[i] = f, whatever
\* other files the report contains.
C25_ManualMatchRetained ==
  [][\A s \in Sockets, k \in PlaybackKeys :
       (/\ last'.ev = "bsl-folder-selected"
        /\ last'.sock = s
        /\ SenderRoom(s) = k
        /\ \E i \in DOMAIN sent' : sent'[i].ev = "bsl-match-result")
         => LET files == last'.data.files
                matched == Target(k)'.clientBslStatus[s].matchedVideos
            IN \A i \in DOMAIN files, idx \in 0..(Len(Target(k).playlist.videos) - 1) :
                 C25_Recorded(last'.data.clientId, files[i].name, Target(k).playlist, idx)
                   => idx \in DOMAIN matched /\ matched[idx] = files[i].name]_vars

\* The same for reports of one file.
C25_RetainedForSingleFile ==
  [][\A s \in Sockets, k \in PlaybackKeys :
       (/\ last'.ev = "bsl-folder-selected"
        /\ last'.sock = s
        /\ SenderRoom(s) = k
        /\ Len(last'.data.files) = 1
        /\ \E i \in DOMAIN sent' : sent'[i].ev = "bsl-match-result")
         => LET files == last'.data.files
                matched == Target(k)'.clientBslStatus[s].matchedVideos
            IN \A i \in DOMAIN files, idx \in 0..(Len(Target(k).playlist.videos) - 1) :
                 C25_Recorded(last'.data.clientId, files[i].name, Target(k).playlist, idx)
                   => idx \in DOMAIN matched /\ matched[idx] = files[i].name]_vars

\* C26: a bsl-folder-selected that repeats the payload of the member's
\* stored report, with no playlist change and no manual match since, gets the
\* reply of the first report (the matchedVideos stored with it) and leaves the
\* member's stored BSL status as the first report left it.
C26_Idempotent ==
  [][\A s \in Sockets, k \in PlaybackKeys :
       (/\ last'.ev = "bsl-folder-selected"
        /\ last'.sock = s
        /\ SenderRoom(s) = k
        /\ s \in DOMAIN Target(k).clientBslStatus
        /\ Target(k).clientBslStatus[s].files = last'.data.files
        /\ Target(k).clientBslStatus[s].clientId =
             (IF last'.data.clientId = undefinedStr THEN s ELSE last'.data.clientId))
         => /\ Target(k)'.clientBslStatus[s] = Target(k).clientBslStatus[s]
            /\ \E i \in DOMAIN sent' :
                 /\ sent'[i].ev = "bsl-match-result"
                 /\ sent'[i].to = {s}
                 /\ sent'[i].data = Target(k).clientBslStatus[s].matchedVideos]_vars

\* A member repeated a report of two files, one of them matched by the
\* persistent store, after time had passed.
C26_Witness ==
  /\ last.ev = "bsl-folder-selected"
  /\ Len(last.data.files) = 2
  /\ now > 0
  /\ memory.bslMatches # EmptyMap
  /\ \E k \in PlaybackKeys :
       /\ SenderRoom(last.sock) = k
       /\ last.sock \in DOMAIN Target(k).clientBslStatus
       /\ Target(k).clientBslStatus[last.sock].matchedVideos # EmptyMap
       /\ Target(k).clientDriftValues # EmptyMap

\* C27: every filename handed to the external track probe, by GET
\* /api/tracks/:filename or by the probe loop of set-playlist, has been
\* accepted by validateFilename.
C27_Probes ==
  {f \in ProbeNames : \E i \in DOMAIN pending : f \in ProbedBy(pending[i].data)}
    \cup (IF last.ev = "GET /api/tracks" /\ last.data.status = 200
          THEN {last.data.probe} ELSE {})

C27_FilenameSafety == \A f \in C27_Probes : validateFilename(f).valid

\* The payload of ev fails a check of the handler's input validation.
C28_Rejected(s, ev, data) ==
  CASE ev = "control" -> ~ControlValid(data)
    [] ev = "playlist-jump" -> ~JumpAccepted(data, Target(SenderRoom(s)).playlist)
    [] ev = "track-change" -> ~TrackChangeValid(data)
    [] ev = "bsl-set-drift" ->
         \/ data.clientFingerprint = undefinedStr
         \/ ~(isValidInteger(data.playlistIndex) /\ data.playlistIndex >= 0)
         \/ ~validateDriftSeconds(data.driftSeconds)
    [] OTHER -> FALSE

\* The sender is the admin of its room, so that nothing but the validation
\* stands between the message and its effect.
C28_Entitled(s, ev) ==
  /\ ~crashed
  /\ sockets[s] = "open"
  /\ ~Blocked(s, ev)
  /\ SenderRoom(s) # undefinedStr
  /\ HandlerAdmin(s, SenderRoom(s))

C28_StateUntouched ==
  UNCHANGED <<connVars, rooms, usedCodes, roomAdmins, legacyVars, legacyAdminVars,
              memory, asyncVars>>

\* C28: a control, playlist-jump, track-change or bsl-set-drift message that
\* input validation rejects leaves all room state unchanged and produces an
\* error event to its sender.
C28_RejectionAnswered ==
  [][\A s \in Sockets, ev \in {last'.ev}, data \in {last'.data} :
       (last'.sock = s /\ C28_Entitled(s, ev) /\ C28_Rejected(s, ev, data))
         => /\ C28_StateUntouched
            /\ \E i \in DOMAIN sent' : s \in sent'[i].to]_vars

\* The half of C28 about the state alone.
C28_RejectionLeavesState ==
  [][\A s \in Sockets, ev \in {last'.ev}, data \in {last'.data} :
       (last'.sock = s /\ C28_Entitled(s, ev) /\ C28_Rejected(s, ev, data))
         => C28_StateUntouched]_vars

\* The positions, in the order of emission on the sender's connection, of the
\* acknowledgement of the command a step handled and of the syncs it sent to
\* the sender.
C29_AckAt(s) ==
  {j \in DOMAIN sent : /\ s \in sent[j].to
                       /\ sent[j].ev \in {"playlist-set", "ack"}
                       /\ sent[j].data.success}

C29_SyncAt(s) == {i \in DOMAIN sent : s \in sent[i].to /\ sent[i].ev = "sync"}

\* C29: for set-playlist (acknowledged by playlist-set) and join-room
\* (acknowledged by its callback), a sync emitted as a consequence of the
\* command reaches the command's sender no earlier than the acknowledgement.
C29_SyncNotBeforeAck ==
  \A s \in Sockets :
    (last.sock = s /\ last.ev \in {"set-playlist", "set-playlist-resume", "join-room"})
      => \A j \in C29_AckAt(s), i \in C29_SyncAt(s) : i >= j

\* The playback states the ticker visits.
C30_Targets == IF config.SERVER_MODE THEN DOMAIN rooms ELSE {Legacy}

C30_State(k) == Target(k).videoState

C30_IsNumber(x) == x \notin {undefined, NaN}

C30_Projected(vs, t) == vs.currentTime + (t - vs.lastUpdate)

C30_Advanced(vs, vs1, t) ==
  /\ C30_IsNumber(vs1.currentTime)
  /\ vs1.currentTime = vs.currentTime + (t - vs.lastUpdate)
  /\ vs1.lastUpdate = t
  /\ C30_Projected(vs1, t) = C30_Projected(vs, t)

\* C30: on a tick, the currentTime of every playing room increases by exactly
\* the time elapsed since lastUpdate and lastUpdate becomes the tick time, so
\* that the projected position is the same before and after; a paused room is
\* unchanged; and the tick emits nothing.
C30_TickStep ==
  [][last'.ev = "tick"
       => /\ sent' = <<>>
          /\ \A k \in C30_Targets :
               IF C30_State(k).isPlaying
               THEN C30_Advanced(C30_State(k), C30_State(k)', now)
               ELSE C30_State(k)' = C30_State(k)]_vars

\* C30 for the rooms whose position is a number when the tick arrives.
C30_TickStepOnNumbers ==
  [][last'.ev = "tick"
       => /\ sent' = <<>>
          /\ \A k \in C30_Targets :
               IF C30_State(k).isPlaying
               THEN C30_IsNumber(C30_State(k).currentTime)
                      => C30_Advanced(C30_State(k), C30_State(k)', now)
               ELSE C30_State(k)' = C30_State(k)]_vars

\* C31: in every reachable state the currentTime of every playback state is a
\* finite number that is at least 0.
C31_PositionIsFiniteAndNonNegative ==
  \A k \in PlaybackKeys :
    LET ct == Target(k).videoState.currentTime
    IN ct \notin {undefined, NaN} /\ ct >= 0

\* C31 for the skips alone: the position is never a negative number.
C31_NeverNegative ==
  \A k \in PlaybackKeys :
    LET ct == Target(k).videoState.currentTime
    IN ct \in {undefined, NaN} \/ ct >= 0

\* The message of a step is one of the malformed messages of C32.
C32_Malformed(ev, data) ==
  \/ ev \in {"create-room", "join-room"} /\ data = NoData
  \/ ev \in {"set-playlist", "set-playlist-resume"} /\ LoopThrows(data)
  \/ ev = "bsl-folder-selected" /\ ~Has(data, "files")

\* C32: a create-room or join-room without a data object, a set-playlist
\* without a playlist or with an entry without a filename, and a
\* bsl-folder-selected without files leave the process running and every room
\* as it was.
C32_MalformedIsHarmless ==
  [][\A ev \in {last'.ev}, data \in {last'.data} :
       C32_Malformed(ev, data)
         => /\ ~crashed'
            /\ UNCHANGED <<rooms, usedCodes, roomAdmins, legacyVars>>]_vars

\* The half of C32 about the rooms alone.
C32_MalformedLeavesRooms ==
  [][\A ev \in {last'.ev}, data \in {last'.data} :
       C32_Malformed(ev, data)
         => UNCHANGED <<rooms, usedCodes, roomAdmins, legacyVars>>]_vars

\* C33: a set-playlist the handler accepted and suspended in the probe loop
\* eventually completes, whether or not the probe process returns.
C33_SetPlaylistCompletes == (pending # <<>>) ~> (pending = <<>>)

\* The control of a step was applied: the room of its sender got a sync.
C34_Applied(s, action) ==
  /\ last'.sock = s
  /\ last'.ev = "control"
  /\ last'.data.action = action
  /\ SenderRoom(s) # undefinedStr
  /\ sent' # <<>>
  /\ Target(SenderRoom(s)).videoState.isPlaying
  /\ C30_IsNumber(Target(SenderRoom(s)).videoState.currentTime)

C34_Skipped(data) ==
  (IF data.direction = "forward" THEN 1 ELSE -1) * Or(data.seconds, SKIP_SECONDS)

\* C34: a playpause with state false applied to a playing room stores as
\* currentTime the position projected immediately before it, and a skip
\* applied to a playing room moves the projected position by the seconds
\* skipped.
C34_PausePreservesPosition ==
  [][\A s \in Sockets :
       LET before == Target(SenderRoom(s)).videoState
           after == Target(SenderRoom(s))'.videoState
       IN /\ (C34_Applied(s, "playpause") /\ ~last'.data.state)
               => after.currentTime = C30_Projected(before, now)
          /\ C34_Applied(s, "skip")
               => C30_Projected(after, now')
                    = C30_Projected(before, now) + C34_Skipped(last'.data)]_vars

\* What the handler does instead: the time since lastUpdate is dropped.
C34_PauseKeepsStoredPosition ==
  [][\A s \in Sockets :
       LET before == Target(SenderRoom(s)).videoState
           after == Target(SenderRoom(s))'.videoState
       IN /\ (C34_Applied(s, "playpause") /\ ~last'.data.state)
               => after.currentTime = before.currentTime
          /\ C34_Applied(s, "skip")
               => C30_Projected(after, now')
                    = before.currentTime + C34_Skipped(last'.data)]_vars

\* A step turned the playback of k from playing to paused.
C35_Paused(k) ==
  /\ k \in PlaybackKeys
  /\ Target(k).videoState.isPlaying
  /\ ~Target(k)'.videoState.isPlaying

\* C35: with video_autoplay off, once no set-playlist is in progress, playback
\* that a playpause with state true started is paused again only by a command
\* of a connection, never by a timer of the server.
C35_PlayStaysInEffect ==
  [][\A k \in PlaybackKeys :
       (~config.VIDEO_AUTOPLAY /\ pending = <<>> /\ C35_Paused(k))
         => last'.sock # null]_vars

\* The same for a play that arrives after the 500 ms timer has fired.
C35_PlayAfterTimerStays ==
  [][\A k \in PlaybackKeys :
       (~config.VIDEO_AUTOPLAY /\ pending = <<>> /\ timers = <<>> /\ C35_Paused(k))
         => last'.sock # null]_vars

\* C36: of two set-playlist commands to one room the one received last
\* decides the playlist once both handlers have finished.  Under OverlapSpec a
\* playlist other than FirstList's was installed by a command received after
\* FirstList, so the resumption of FirstList's handler must leave it in place.
C36_LastCommandWins ==
  [][\A k \in PlaybackKeys, data \in SecondLists :
       (/\ last'.ev = "set-playlist-resume"
        /\ last'.data = FirstList
        /\ pending' = <<>>
        /\ Target(k).playlist.videos = data.playlist)
         => Target(k)'.playlist.videos = data.playlist]_vars

\* A step completed a set-playlist of s: its playlist-set reply went out.
C37_Completed(s) ==
  /\ last'.sock = s
  /\ last'.ev \in {"set-playlist", "set-playlist-resume"}
  /\ \E i \in DOMAIN sent' : sent'[i].ev = "playlist-set" /\ sent'[i].data.success

\* C37: when a set-playlist completes, the room's live playback state is the
\* one the handler wrote (currentTime 0, isPlaying = video_autoplay) and it is
\* the payload of the sync the handler broadcast.
C37_WrittenStateIsLive ==
  [][\A s \in Sockets :
       C37_Completed(s) =>
         LET live == Target(SenderRoom(s))'.videoState
         IN /\ live.currentTime = 0
            /\ live.isPlaying = config.VIDEO_AUTOPLAY
            /\ \A i \in DOMAIN sent' : sent'[i].ev = "sync" => sent'[i].data = live]_vars

\* C37 for a set-playlist during which no raw push replaced the state.
C37_WrittenStateIsLiveIfKept ==
  [][\A s \in Sockets :
       (C37_Completed(s) /\ detached = EmptyMap) =>
         LET live == Target(SenderRoom(s))'.videoState
         IN /\ live.currentTime = 0
            /\ live.isPlaying = config.VIDEO_AUTOPLAY
            /\ \A i \in DOMAIN sent' : sent'[i].ev = "sync" => sent'[i].data = live]_vars

\* The value table[idx] stored for entry idx of videos is, after the step,
\* stored for the entry of the same filename, where there still is one.
C38_Follows(table, videos, table1, videos1) ==
  \A idx \in DOMAIN table :
    (idx + 1) \in DOMAIN videos =>
      LET same == {j \in DOMAIN videos1 : videos1[j].filename = videos[idx + 1].filename}
      IN \A j \in same : (j - 1) \in DOMAIN table1 /\ table1[j - 1] = table[idx]

C38_InRange(table1, videos1) == \A idx \in DOMAIN table1 : (idx + 1) \in DOMAIN videos1

C38_Kept(table, videos, table1, videos1) ==
  C38_Follows(table, videos, table1, videos1) /\ C38_InRange(table1, videos1)

\* C38: after an accepted playlist-reorder or set-playlist every stored drift
\* and every stored BSL match of every member belongs to the playlist entry of
\* the filename it belonged to before, and none has an index outside the
\* playlist.
C38_DataFollowsEntry ==
  [][\A k \in PlaybackKeys :
       (/\ last'.ev \in {"playlist-reorder", "set-playlist"}
        /\ \E i \in DOMAIN sent' : sent'[i].ev = "playlist-update")
         => LET t == Target(k)
                t1 == Target(k)'
            IN /\ \A fp \in DOMAIN t.clientDriftValues :
                    C38_Kept(t.clientDriftValues[fp], t.playlist.videos,
                             t1.clientDriftValues[fp], t1.playlist.videos)
               /\ \A x \in DOMAIN t.clientBslStatus :
                    C38_Kept(t.clientBslStatus[x].matchedVideos, t.playlist.videos,
                             t1.clientBslStatus[x].matchedVideos,
                             t1.playlist.videos)]_vars

\* The rooms whose member set holds connection s.
C39_RoomsOf(s) == {k \in DOMAIN rooms : s \in DOMAIN rooms[k].clients}

\* C39: every connection is in the member set of at most one room, a
\* connection that has disconnected is in none, and the viewer count of every
\* room is the number of connected connections whose current room it is.
C39_OneRoomPerConnection ==
  config.SERVER_MODE =>
    /\ \A s \in Sockets : Cardinality(C39_RoomsOf(s)) <= 1
    /\ \A s \in Sockets : sockets[s] # "open" => C39_RoomsOf(s) = {}
    /\ \A k \in DOMAIN rooms :
         getClientCount(rooms[k])
           = Cardinality({s \in OpenSockets : socketRoomMap[s] = k})

\* The fingerprint connection s supplied with its most recent create-room or
\* join-room for room k: addClient records it in the member set.
C40_Supplied(s, k) ==
  IF s \in DOMAIN rooms[k].clients THEN rooms[k].clients[s] ELSE undefinedStr

\* C40: a connection passes the admin gate for its room only if the
\* fingerprint of its most recent create-room or join-room for that room is
\* the room's admin fingerprint.
C40_GateFollowsLastJoin ==
  config.SERVER_MODE =>
    \A s \in OpenSockets :
      isSocketAdmin(s) =>
        LET k == getRoom(socketRoomMap[s])
        IN isAdmin(k, C40_Supplied(s, k))

====
